---- MODULE Spec2Model ----
(***************************************************************************)
(* The three index variants of index.py (NaiveIndex,                       *)
(* ListBasedInvertedIndexWithFrequencies and                               *)
(* DictBasedInvertedIndexWithFrequencies), their add_document and search   *)
(* methods, and the TF-IDF helpers.                                        *)
(*                                                                         *)
(* Numbers.  term_frequency is the rational count/length; it is stored     *)
(* exactly as the integer count * TfScale / length, TfScale being a common *)
(* multiple of every document length of the corpus.                        *)
(* inverse_document_frequency is math.log(N / df); it is the fixed-point   *)
(* value LnMicro[N] - LnMicro[df] in units of 10^-6.  A score is therefore *)
(* an integer in units of 10^-6 / TfScale.  Two scores that are equal as    *)
(* real numbers are equal here; as Python floats they can differ in the    *)
(* last bit, which then decides their order.                               *)
(*                                                                         *)
(* Python dicts keep insertion order: a dict whose order can be observed   *)
(* (the postings of a term, the score tables) is a sequence of <<key,      *)
(* value>> pairs.  A Python set of strings iterates in hash order, which   *)
(* changes from run to run: the iteration order of a set is chosen         *)
(* nondeterministically.                                                   *)
(***************************************************************************)
EXTENDS Integers, Sequences, FiniteSets, TLC

\* ------------------------------------------------------------------ bounds
\* Number of add_document calls on an index.
MaxDocs == 3
\* Length of Query.terms.
MaxQueryTerms == 2

\* ------------------------------------------------------------------ inputs
\* The documents add_document is called with.  A, B, C are the documents of
\* the basic TF-IDF scenario; the fourth re-uses doc_id A (it has beta without
\* alpha and ties with C on delta), the fifth has an empty token list.
Corpus ==
    { [doc_id |-> "A", tokens |-> <<"alpha", "beta", "beta", "gamma">>],
      [doc_id |-> "B", tokens |-> <<"alpha", "alpha", "beta">>],
      [doc_id |-> "C", tokens |-> <<"gamma", "delta">>],
      [doc_id |-> "A", tokens |-> <<"beta", "delta">>],
      [doc_id |-> "D", tokens |-> <<>>] }

DocIds == { d.doc_id : d \in Corpus }

\* Terms a query is made of; zeta is in no document.  gamma and delta reach
\* a query as alternatives.
QueryTerms == {"alpha", "beta", "zeta"}

\* Query.alternatives: keys is the mapping, is_defaultdict tells whether the
\* mapping is a collections.defaultdict(list) (as ThesaurusQueryExpander
\* .process_query returns) or a plain dict (as the tests pass).
AlternativesMaps ==
    { [is_defaultdict |-> FALSE, keys |-> <<>>],
      [is_defaultdict |-> FALSE,
       keys |-> [t \in QueryTerms |-> <<>>]],
      [is_defaultdict |-> FALSE,
       keys |-> ("alpha" :> <<"gamma">>) @@ ("beta" :> <<"gamma">>) @@
                ("gamma" :> <<>>) @@ ("zeta" :> <<"gamma">>) @@
                ("delta" :> <<"alpha">>)],
      [is_defaultdict |-> FALSE,
       keys |-> ("alpha" :> <<"zeta", "beta">>) @@ ("beta" :> <<"zeta">>) @@
                ("gamma" :> <<"delta", "alpha">>) @@ ("zeta" :> <<"zeta", "delta">>)],
      [is_defaultdict |-> TRUE,
       keys |-> ("alpha" :> <<"beta">>)] }

RECURSIVE SeqsUpTo(_, _)
SeqsUpTo(S, n) ==
    IF n = 0 THEN { <<>> }
    ELSE LET shorter == SeqsUpTo(S, n - 1)
         IN  shorter \cup { Append(s, x) : s \in shorter, x \in S }

\* num_results: no result, one, all but one and as many as there can be
\* documents.
Queries ==
    { [terms |-> ts, alternatives |-> am, num_results |-> k] :
        ts \in SeqsUpTo(QueryTerms, MaxQueryTerms),
        am \in AlternativesMaps,
        k \in {0, 1, MaxDocs - 1, MaxDocs} }

\* ----------------------------------------------------------------- helpers
Range(s) == { s[i] : i \in 1..Len(s) }

\* Insertion-ordered dict as a sequence of <<key, value>> pairs.
DictKeys(d) == { d[i][1] : i \in 1..Len(d) }

DictKeySeq(d) == [i \in 1..Len(d) |-> d[i][1]]

DictGet(d, k) == LET i == CHOOSE j \in 1..Len(d) : d[j][1] = k IN d[i][2]

\* d[k] = v: an existing key keeps its position, a new key goes last.
DictSet(d, k, v) ==
    IF k \in DictKeys(d)
    THEN [i \in 1..Len(d) |-> IF d[i][1] = k THEN <<k, v>> ELSE d[i]]
    ELSE Append(d, <<k, v>>)

\* defaultdict(float): d[k] += v.
DictAdd(d, k, v) ==
    IF k \in DictKeys(d) THEN DictSet(d, k, DictGet(d, k) + v)
    ELSE Append(d, <<k, 0 + v>>)

\* collections.Counter, a dict (its items() run in insertion order, which
\* write follows): a missing key reads as 0 and is not inserted.
CounterGet(c, k) == IF k \in DictKeys(c) THEN DictGet(c, k) ELSE 0

\* Mutant of CounterInc: the count is set to 1.
CounterSetOne(c, k) == DictSet(c, k, 1)

\* c[k] += 1
CounterInc(c, k) == DictSet(c, k, CounterGet(c, k) + 1)

\* Counter(tokens)[t]
RECURSIVE CountOf(_, _)
CountOf(tokens, t) ==
    IF tokens = <<>> THEN 0
    ELSE (IF Head(tokens) = t THEN 1 ELSE 0) + CountOf(Tail(tokens), t)

\* The keys of Counter(tokens), in order of first occurrence.
RECURSIVE CounterKeys(_)
CounterKeys(tokens) ==
    IF tokens = <<>> THEN <<>>
    ELSE LET n == Len(tokens)
             before == CounterKeys(SubSeq(tokens, 1, n - 1))
         IN  IF tokens[n] \in Range(before) THEN before
             ELSE Append(before, tokens[n])

\* The orders in which a set can be iterated.
Orders(S) ==
    { f \in [1..Cardinality(S) -> S] :
        \A i, j \in 1..Cardinality(S) : f[i] = f[j] => i = j }

RECURSIVE Gcd(_, _)
Gcd(a, b) == IF b = 0 THEN a ELSE Gcd(b, a % b)

RECURSIVE LcmOf(_)
LcmOf(S) ==
    IF S = {} THEN 1
    ELSE LET x == CHOOSE y \in S : TRUE
             r == LcmOf(S \ {x})
         IN  (x * r) \div Gcd(x, r)

\* --------------------------------------------------------------- TF and IDF
TfScale == LcmOf({ Len(d.tokens) : d \in Corpus } \ {0})

\* index.py term_frequency: term_count / document_length, in units 1/TfScale.
term_frequency(term_count, document_length) ==
    (term_count * TfScale) \div document_length

\* Natural logarithms of 1..8 in units of 10^-6.
LnMicro == <<0, 693147, 1098612, 1386294, 1609438, 1791759, 1945910, 2079442>>

\* index.py inverse_document_frequency raises ZeroDivisionError for a
\* document count of 0 and ValueError (math domain error) for a ratio <= 0.
IdfError(term_document_count, number_of_documents) ==
    IF term_document_count = 0 THEN "ZeroDivisionError"
    ELSE IF number_of_documents * term_document_count <= 0 THEN "ValueError"
    ELSE "none"

\* index.py inverse_document_frequency: math.log(N / df), in units 10^-6.
inverse_document_frequency(term_document_count, number_of_documents) ==
    LnMicro[number_of_documents] - LnMicro[term_document_count]

\* ------------------------------------------------------------------- state
VARIABLES
    naiveIndex,   \* NaiveIndex.docs
    listIndex,    \* ListBasedInvertedIndexWithFrequencies: num_documents,
                  \* term_to_doc_id_and_frequencies, doc_counts
    dictIndex,    \* DictBasedInvertedIndexWithFrequencies: the same fields
    call,         \* the last call made on the indexes and what it returned
    file,         \* the index files at the file_path of listIndex and dictIndex
    loaded,       \* the indexes of the query process, which read a file
    term_alternatives,  \* ThesaurusQueryExpander.term_alternatives
    documents     \* DictDocumentCollection.documents

vars == <<naiveIndex, listIndex, dictIndex, call, file, loaded,
          term_alternatives, documents>>

\* __init__ of the two inverted indexes: no document, no term.  The entry of
\* a term in term_to_doc_id_and_frequencies is a sequence of <<doc_id, tf>>
\* pairs; list_valued holds the terms of the dict-based index whose entry is
\* a Python list of {'doc_id', 'tf'} dicts and not a dict (read stores
\* record['index'] as it is).
EmptyIndex ==
    [num_documents |-> 0,
     term_to_doc_id_and_frequencies |-> <<>>,
     doc_counts |-> <<>>,
     list_valued |-> {}]

\* ------------------------------------------------------------ add_document
\* NaiveIndex.add_document
NaiveIndex_add_document(docs, doc) == Append(docs, doc)

\* ListBasedInvertedIndexWithFrequencies.add_document, the loop over
\* term_counts.items(): the posting is appended to the term's list.
RECURSIVE ListIndex_add_terms(_, _, _)
ListIndex_add_terms(idx, doc, terms) ==
    IF terms = <<>> THEN idx
    ELSE LET term == Head(terms)
             post == idx.term_to_doc_id_and_frequencies
             tf == term_frequency(CountOf(doc.tokens, term), Len(doc.tokens))
             old == IF term \in DOMAIN post THEN post[term] ELSE <<>>
         IN  ListIndex_add_terms(
                 [idx EXCEPT
                    !.doc_counts = CounterInc(@, term),
                    !.term_to_doc_id_and_frequencies =
                        (term :> Append(old, <<doc.doc_id, tf>>)) @@ @],
                 doc, Tail(terms))

\* Mutant of ListIndex_add_document: num_documents is not incremented.
ListIndex_add_document_uncounted(idx, doc) ==
    ListIndex_add_terms(idx, doc, CounterKeys(doc.tokens))

ListIndex_add_document(idx, doc) ==
    ListIndex_add_terms([idx EXCEPT !.num_documents = @ + 1],
                        doc, CounterKeys(doc.tokens))

\* Mutant of DictIndex_add_terms: the count is divided by the number of
\* distinct tokens of the document.
RECURSIVE DictIndex_add_terms_distinct_length(_, _, _)
DictIndex_add_terms_distinct_length(idx, doc, terms) ==
    IF terms = <<>> THEN idx
    ELSE LET term == Head(terms)
             post == idx.term_to_doc_id_and_frequencies
             tf == term_frequency(CountOf(doc.tokens, term),
                                  Len(CounterKeys(doc.tokens)))
             old == IF term \in DOMAIN post THEN post[term] ELSE <<>>
         IN  DictIndex_add_terms_distinct_length(
                 [idx EXCEPT
                    !.doc_counts = CounterInc(@, term),
                    !.term_to_doc_id_and_frequencies =
                        (term :> DictSet(old, doc.doc_id, tf)) @@ @],
                 doc, Tail(terms))

\* DictBasedInvertedIndexWithFrequencies.add_document, the loop over
\* term_counts.items(): the posting is stored under the doc_id.
RECURSIVE DictIndex_add_terms(_, _, _)
DictIndex_add_terms(idx, doc, terms) ==
    IF terms = <<>> THEN idx
    ELSE LET term == Head(terms)
             post == idx.term_to_doc_id_and_frequencies
             tf == term_frequency(CountOf(doc.tokens, term), Len(doc.tokens))
             old == IF term \in DOMAIN post THEN post[term] ELSE <<>>
         IN  DictIndex_add_terms(
                 [idx EXCEPT
                    !.doc_counts = CounterInc(@, term),
                    !.term_to_doc_id_and_frequencies =
                        (term :> DictSet(old, doc.doc_id, tf)) @@ @],
                 doc, Tail(terms))

\* Mutant of DictIndex_add_document: a document without tokens is indexed
\* under the empty term, with no posting.
DictIndex_add_document_empty_term(idx, doc) ==
    LET added == DictIndex_add_terms([idx EXCEPT !.num_documents = @ + 1],
                                     doc, CounterKeys(doc.tokens))
    IN  IF doc.tokens # <<>> THEN added
        ELSE [added EXCEPT !.term_to_doc_id_and_frequencies = ("" :> <<>>) @@ @]

DictIndex_add_document(idx, doc) ==
    DictIndex_add_terms([idx EXCEPT !.num_documents = @ + 1],
                        doc, CounterKeys(doc.tokens))

\* ------------------------------------------------------------------ search
\* What a search call gives back: SearchResults.result_doc_ids, or the
\* exception it raised.  scores is the local score table at the return.
Returned(ids, scores) ==
    [error |-> "none", result_doc_ids |-> ids, scores |-> scores]

Raised(exception) ==
    [error |-> exception, result_doc_ids |-> <<>>, scores |-> <<>>]

\* Mutant of sorted_reverse: the reverse=True is lost, lowest value first.
RECURSIVE sorted_ascending(_)
sorted_ascending(d) ==
    IF d = <<>> THEN <<>>
    ELSE LET n == Len(d)
             s == sorted_ascending(SubSeq(d, 1, n - 1))
             k == Cardinality({ i \in 1..Len(s) : s[i][2] <= d[n][2] })
         IN  SubSeq(s, 1, k) \o << d[n] >> \o SubSeq(s, k + 1, Len(s))

\* sorted(d.keys(), key=d.get, reverse=True) on an insertion-ordered dict:
\* highest value first, equal values keep their order in d.  Gives the
\* <<key, value>> pairs in sorted order.
RECURSIVE sorted_reverse(_)
sorted_reverse(d) ==
    IF d = <<>> THEN <<>>
    ELSE LET n == Len(d)
             s == sorted_reverse(SubSeq(d, 1, n - 1))
             k == Cardinality({ i \in 1..Len(s) : s[i][2] >= d[n][2] })
         IN  SubSeq(s, 1, k) \o << d[n] >> \o SubSeq(s, k + 1, Len(s))

\* seq[:n] for n >= 0
Slice(seq, n) == SubSeq(seq, 1, IF n < Len(seq) THEN n ELSE Len(seq))

\* NaiveIndex.search, the loop over self.docs with its break.
RECURSIVE NaiveIndex_scan(_, _, _)
NaiveIndex_scan(docs, query, matching_ids) ==
    IF docs = <<>> THEN matching_ids
    ELSE LET document == Head(docs)
             m == IF Range(query.terms) \subseteq Range(document.tokens)
                  THEN Append(matching_ids, document.doc_id)
                  ELSE matching_ids
         IN  IF Len(m) = query.num_results THEN m
             ELSE NaiveIndex_scan(Tail(docs), query, m)

NaiveIndex_search(docs, query) ==
    Returned(NaiveIndex_scan(docs, query, <<>>), <<>>)

\* ListBasedInvertedIndexWithFrequencies.search, the loop over the postings
\* of one term (lines 175-179).
RECURSIVE ListIndex_score_postings(_, _, _)
ListIndex_score_postings(st, postings, idf) ==
    IF postings = <<>> THEN st
    ELSE LET doc_id == Head(postings)[1]
             tf == Head(postings)[2]
         IN  ListIndex_score_postings(
                 [st EXCEPT !.match_counts = DictAdd(@, doc_id, 1),
                            !.match_scores = DictAdd(@, doc_id, tf * idf)],
                 Tail(postings), idf)

\* ListBasedInvertedIndexWithFrequencies.search, the loop over query.terms
\* (lines 167-179).  exit is "return" at the early return of line 172.
RECURSIVE ListIndex_score_terms(_, _, _)
ListIndex_score_terms(idx, terms, st) ==
    IF terms = <<>> THEN st
    ELSE LET term == Head(terms)
             df == CounterGet(idx.doc_counts, term)
         IN  IF term \notin DOMAIN idx.term_to_doc_id_and_frequencies
             THEN [st EXCEPT !.exit = "return"]
             ELSE IF IdfError(df, idx.num_documents) # "none"
             THEN [st EXCEPT !.exit = IdfError(df, idx.num_documents)]
             ELSE ListIndex_score_terms(idx, Tail(terms),
                     ListIndex_score_postings(st,
                         idx.term_to_doc_id_and_frequencies[term],
                         inverse_document_frequency(df, idx.num_documents)))

\* Mutant of ListIndex_matching_all: the match_counts filter is lost.
ListIndex_matching_any(st, n) == st.match_scores

\* The dict comprehension of lines 182-183.
ListIndex_matching_all(st, n) ==
    SelectSeq(st.match_scores, LAMBDA p : DictGet(st.match_counts, p[1]) = n)

ListIndex_search(idx, query) ==
    LET st == ListIndex_score_terms(idx, query.terms,
                  [exit |-> "none", match_scores |-> <<>>, match_counts |-> <<>>])
        match_scores == ListIndex_matching_all(st, Len(query.terms))
        sorted_results == DictKeySeq(sorted_reverse(match_scores))
    IN  IF st.exit = "return" THEN Returned(<<>>, <<>>)
        ELSE IF st.exit # "none" THEN Raised(st.exit)
        ELSE Returned(Slice(sorted_results, query.num_results), match_scores)

\* search2(query) on the list-based index: the class defines add_document,
\* search, read and write and no search2, so the attribute lookup raises.
ListIndex_search2(idx, query) == Raised("AttributeError")

\* query.alternatives[term] (lines 291 and 313): a plain dict raises KeyError
\* for a missing key, a defaultdict(list) gives (and stores) an empty list.
has_alternatives(query, term) ==
    term \in DOMAIN query.alternatives.keys \/ query.alternatives.is_defaultdict

\* Mutant of alternatives_of: the lists of all keys of query.alternatives are
\* read for a term that has a key, not only its own list.
RECURSIVE lists_of(_, _)
lists_of(keys, ks) ==
    IF ks = {} THEN <<>>
    ELSE LET k == CHOOSE x \in ks : TRUE
         IN  keys[k] \o lists_of(keys, ks \ {k})

alternatives_of_every_key(query, term) ==
    IF term \in DOMAIN query.alternatives.keys
    THEN lists_of(query.alternatives.keys, DOMAIN query.alternatives.keys)
    ELSE <<>>

alternatives_of(query, term) ==
    IF term \in DOMAIN query.alternatives.keys
    THEN query.alternatives.keys[term]
    ELSE <<>>

\* self.term_to_doc_id_and_frequencies[t].keys() when t is in the index
posting_keys(idx, t) ==
    IF t \in DOMAIN idx.term_to_doc_id_and_frequencies
    THEN DictKeys(idx.term_to_doc_id_and_frequencies[t])
    ELSE {}

\* Mutant of term_matches: the alternatives are not united in.
term_matches_without_alternatives(idx, term, alternatives) ==
    posting_keys(idx, term)

\* DictBasedInvertedIndexWithFrequencies.search lines 288-293: the doc_ids of
\* the term, united with those of its alternatives that are in the index.
term_matches(idx, term, alternatives) ==
    posting_keys(idx, term) \cup
    UNION { posting_keys(idx, alternatives[j]) : j \in 1..Len(alternatives) }

\* term_matches is still the dict_keys view of line 290 when line 293 never
\* ran: it then iterates in the insertion order of the term's postings.
is_keys_view(idx, term, alternatives) ==
    /\ term \in DOMAIN idx.term_to_doc_id_and_frequencies
    /\ \A j \in 1..Len(alternatives) :
          alternatives[j] \notin DOMAIN idx.term_to_doc_id_and_frequencies

\* DictBasedInvertedIndexWithFrequencies.search lines 285-303, from position
\* i of query.terms on.  acc.kind is "None" while ids_matching_all_terms is
\* None, "ids" when it holds doc_ids, "return" at the early return of line
\* 303, "KeyError" when query.alternatives[term] raised and "AttributeError"
\* when .keys() was called on an entry that is a list (lines 290, 293).
RECURSIVE DictIndex_match_from(_, _, _, _)
DictIndex_match_from(idx, query, i, acc) ==
    IF i > Len(query.terms) THEN acc
    ELSE LET term == query.terms[i]
             alts == alternatives_of(query, term)
             matches == term_matches(idx, term, alts)
             ids == IF acc.kind = "None" THEN matches ELSE acc.ids \cap matches
         IN  IF term \in idx.list_valued
             THEN [acc EXCEPT !.kind = "AttributeError"]
             ELSE IF ~has_alternatives(query, term)
             THEN [acc EXCEPT !.kind = "KeyError"]
             ELSE IF \E j \in 1..Len(alts) : alts[j] \in idx.list_valued
             THEN [acc EXCEPT !.kind = "AttributeError"]
             ELSE IF ids = {}
             THEN [acc EXCEPT !.kind = "return", !.ids = {}]
             ELSE DictIndex_match_from(idx, query, i + 1,
                     [kind |-> "ids", ids |-> ids,
                      view |-> acc.kind = "None" /\ is_keys_view(idx, term, alts),
                      view_term |-> term])

DictIndex_match(idx, query) ==
    DictIndex_match_from(idx, query, 1,
        [kind |-> "None", ids |-> {}, view |-> FALSE, view_term |-> ""])

\* The orders in which `for doc_id in ids_matching_all_terms` (line 278) can
\* run: the postings order for a dict_keys view, any order for a set.
IterationOrders(idx, query) ==
    LET sel == DictIndex_match(idx, query)
    IN  IF sel.kind # "ids" THEN { <<>> }
        ELSE IF sel.view
        THEN { DictKeySeq(idx.term_to_doc_id_and_frequencies[sel.view_term]) }
        ELSE Orders(sel.ids)

\* _score_matches_for_term, the loop of lines 278-280 from position i of the
\* iteration order on.
RECURSIVE score_matching_ids(_, _, _, _, _)
score_matching_ids(doc_match_scores, postings, idf, order, i) ==
    IF i > Len(order) THEN doc_match_scores
    ELSE score_matching_ids(
            IF order[i] \in DictKeys(postings)
            THEN DictAdd(doc_match_scores, order[i], DictGet(postings, order[i]) * idf)
            ELSE doc_match_scores,
            postings, idf, order, i + 1)

\* Mutant of score_matches_for_term_guard: the early return of line 273 is
\* missing.
score_matches_for_term_no_guard(df) == FALSE

\* _score_matches_for_term line 273: if self.doc_counts[term] <= 0: return
score_matches_for_term_guard(df) == df <= 0

\* Mutant of score_matches_for_term: the entry of the term is looked up in
\* the defaultdict before the test of doc_counts, which stores an empty
\* entry for a term that is not indexed.
score_matches_for_term_lookup_first(st, term, order) ==
    LET df == CounterGet(st.index.doc_counts, term)
        post == st.index.term_to_doc_id_and_frequencies
        touched == IF term \in DOMAIN post THEN post ELSE (term :> <<>>) @@ post
        looked_up == [st EXCEPT !.index.term_to_doc_id_and_frequencies = touched]
    IN  IF st.error # "none" THEN st
        ELSE IF df <= 0 THEN looked_up
        ELSE IF IdfError(df, st.index.num_documents) # "none"
        THEN [looked_up EXCEPT !.error = IdfError(df, st.index.num_documents)]
        ELSE [looked_up EXCEPT
                !.doc_match_scores =
                    score_matching_ids(@, touched[term],
                        inverse_document_frequency(df, st.index.num_documents),
                        order, 1)]

\* DictBasedInvertedIndexWithFrequencies._score_matches_for_term.  st holds
\* doc_match_scores, processed_alternatives, the index (reading
\* term_to_doc_id_and_frequencies[term] of a defaultdict stores an empty
\* entry for a missing term) and the exception raised, if any.
score_matches_for_term(st, term, order) ==
    LET df == CounterGet(st.index.doc_counts, term)
        post == st.index.term_to_doc_id_and_frequencies
        touched == IF term \in DOMAIN post \/ order = <<>> THEN post
                   ELSE (term :> <<>>) @@ post
    IN  IF st.error # "none" THEN st
        ELSE IF score_matches_for_term_guard(df) THEN st
        ELSE IF IdfError(df, st.index.num_documents) # "none"
        THEN [st EXCEPT !.error = IdfError(df, st.index.num_documents)]
        ELSE [st EXCEPT
                !.index.term_to_doc_id_and_frequencies = touched,
                !.doc_match_scores =
                    score_matching_ids(@, touched[term],
                        inverse_document_frequency(df, st.index.num_documents),
                        order, 1)]

\* Mutant of already_processed: no alternative is ever skipped.
never_processed(alternative, processed_alternatives) == FALSE

\* Lines 313-317: the alternatives of one term, skipping those already in
\* processed_alternatives.
already_processed(alternative, processed_alternatives) ==
    alternative \in Range(processed_alternatives)

\* Mutant of score_alternatives: processed_alternatives starts empty for each
\* term, so an alternative is skipped only within the list of one term.
RECURSIVE score_alternatives_rest(_, _, _)
score_alternatives_rest(st, alternatives, order) ==
    IF alternatives = <<>> THEN st
    ELSE LET alternative == Head(alternatives)
         IN  IF alternative \in Range(st.processed_alternatives)
             THEN score_alternatives_rest(st, Tail(alternatives), order)
             ELSE score_alternatives_rest(
                     [score_matches_for_term(st, alternative, order) EXCEPT
                        !.processed_alternatives = Append(@, alternative)],
                     Tail(alternatives), order)

score_alternatives_per_term(st, alternatives, order) ==
    score_alternatives_rest([st EXCEPT !.processed_alternatives = <<>>],
                            alternatives, order)

RECURSIVE score_alternatives(_, _, _)
score_alternatives(st, alternatives, order) ==
    IF alternatives = <<>> THEN st
    ELSE LET alternative == Head(alternatives)
         IN  IF already_processed(alternative, st.processed_alternatives)
             THEN score_alternatives(st, Tail(alternatives), order)
             ELSE score_alternatives(
                     [score_matches_for_term(st, alternative, order) EXCEPT
                        !.processed_alternatives = Append(@, alternative)],
                     Tail(alternatives), order)

\* Mutant of score_terms: a term that occurs again later in query.terms is
\* not scored at this position, so each original term is scored once.
RECURSIVE score_terms_once(_, _, _, _)
score_terms_once(st, query, terms, order) ==
    IF terms = <<>> THEN st
    ELSE score_terms_once(
            score_alternatives(
                IF Head(terms) \in Range(Tail(terms)) THEN st
                ELSE score_matches_for_term(st, Head(terms), order),
                alternatives_of(query, Head(terms)), order),
            query, Tail(terms), order)

\* Lines 310-317: every term of the query, then its alternatives.
RECURSIVE score_terms(_, _, _, _)
score_terms(st, query, terms, order) ==
    IF terms = <<>> THEN st
    ELSE score_terms(
            score_alternatives(score_matches_for_term(st, Head(terms), order),
                               alternatives_of(query, Head(terms)), order),
            query, Tail(terms), order)

\* DictBasedInvertedIndexWithFrequencies.search; order is the iteration order
\* of ids_matching_all_terms.  index is the index after the call.
DictIndex_search(idx, query, order) ==
    LET sel == DictIndex_match(idx, query)
        st == score_terms([doc_match_scores |-> <<>>,
                           processed_alternatives |-> <<>>,
                           index |-> idx,
                           error |-> "none"],
                          query, query.terms, order)
        sorted_results == DictKeySeq(sorted_reverse(st.doc_match_scores))
    IN  IF sel.kind \in {"KeyError", "AttributeError"}
        THEN Raised(sel.kind) @@ [index |-> idx]
        ELSE IF sel.kind = "return" THEN Returned(<<>>, <<>>) @@ [index |-> idx]
        ELSE IF st.error # "none" THEN Raised(st.error) @@ [index |-> st.index]
        ELSE Returned(Slice(sorted_results, query.num_results), st.doc_match_scores)
                 @@ [index |-> st.index]

\* ---------------------------------------------------------- write and read
\* An index file: exists is FALSE until write has made it; the first line is
\* the header {"number_of_documents": n}, records are the lines after it.
NoFile == [exists |-> FALSE, number_of_documents |-> 0, records |-> <<>>]

\* json.dumps writes a float as repr(x), the shortest decimal text that
\* float() reads back as x: the text is kept as the float it denotes.
json_dumps_float(x) == [repr |-> x]

\* Mutant of json_loads_float: the number is read with less precision.
json_loads_truncated(text) == (text.repr \div 4) * 4

\* json.loads of the text of a number
json_loads_float(text) == text.repr

\* self.term_to_doc_id_and_frequencies[term] in write: a defaultdict read.
entry_of(idx, term) ==
    IF term \in DOMAIN idx.term_to_doc_id_and_frequencies
    THEN idx.term_to_doc_id_and_frequencies[term]
    ELSE <<>>

\* 'index': [{'doc_id': doc_id, 'tf': tf} for doc_id, tf in ...] as JSON: an
\* array of objects with the keys doc_id and tf.
json_array_of_postings(postings) ==
    [shape |-> "array",
     members |-> [j \in 1..Len(postings) |->
                    [doc_id |-> postings[j][1],
                     tf |-> json_dumps_float(postings[j][2])]]]

\* 'index': {doc_id: tf, ...} as JSON: an object, one member per doc_id.
json_object_of_postings(postings) ==
    [shape |-> "object",
     members |-> [j \in 1..Len(postings) |->
                    <<postings[j][1], json_dumps_float(postings[j][2])>>]]

\* The index after write: term_to_doc_id_and_frequencies[term] is read for
\* every term of doc_counts, and the defaultdict stores an empty entry for a
\* term it does not have.
index_after_write(idx) ==
    LET post == idx.term_to_doc_id_and_frequencies
    IN  [idx EXCEPT !.term_to_doc_id_and_frequencies =
            [t \in DOMAIN post \cup DictKeys(idx.doc_counts) |->
                IF t \in DOMAIN post THEN post[t] ELSE <<>>]]

\* ListBasedInvertedIndexWithFrequencies.write: the header, then one record
\* for each item of doc_counts.
ListIndex_write(idx) ==
    [exists |-> TRUE,
     number_of_documents |-> idx.num_documents,
     records |-> [i \in 1..Len(idx.doc_counts) |->
                    [term |-> idx.doc_counts[i][1],
                     documents_count |-> idx.doc_counts[i][2],
                     index |-> json_array_of_postings(
                                   entry_of(idx, idx.doc_counts[i][1]))]]]

\* DictBasedInvertedIndexWithFrequencies.write: the entry of the term is
\* dumped as it is, a dict as an object and a list of dicts as an array.
DictIndex_write(idx) ==
    [exists |-> TRUE,
     number_of_documents |-> idx.num_documents,
     records |-> [i \in 1..Len(idx.doc_counts) |->
                    [term |-> idx.doc_counts[i][1],
                     documents_count |-> idx.doc_counts[i][2],
                     index |-> IF idx.doc_counts[i][1] \in idx.list_valued
                               THEN json_array_of_postings(
                                        entry_of(idx, idx.doc_counts[i][1]))
                               ELSE json_object_of_postings(
                                        entry_of(idx, idx.doc_counts[i][1]))]]]

\* ListBasedInvertedIndexWithFrequencies.read, the loop over the lines after
\* the header (lines 196-203).  Iterating an object gives its keys, and
\* index_record['doc_id'] on a key, a str, raises TypeError; doc_counts[term]
\* has been set by then.
RECURSIVE ListIndex_read_records(_, _)
ListIndex_read_records(st, records) ==
    IF records = <<>> THEN st
    ELSE LET record == Head(records)
             members == record.index.members
             counted == [st.index EXCEPT
                           !.doc_counts = DictSet(@, record.term, record.documents_count)]
         IN  IF record.index.shape = "object" /\ members # <<>>
             THEN [index |-> counted, error |-> "TypeError"]
             ELSE ListIndex_read_records(
                     [st EXCEPT !.index =
                        [counted EXCEPT !.term_to_doc_id_and_frequencies =
                           (record.term :>
                              [j \in 1..Len(members) |->
                                 <<members[j].doc_id, json_loads_float(members[j].tf)>>])
                           @@ @]],
                     Tail(records))

\* Mutant of ListIndex_read: the maps are not made anew, the records are
\* stored into the maps the index has.
ListIndex_read_merging(idx, f) ==
    IF ~f.exists THEN [index |-> idx, error |-> "FileNotFoundError"]
    ELSE ListIndex_read_records(
            [index |-> [idx EXCEPT !.num_documents = f.number_of_documents],
             error |-> "none"],
            f.records)

\* ListBasedInvertedIndexWithFrequencies.read on the index idx: open raises
\* FileNotFoundError for a missing file and leaves idx as it is.
ListIndex_read(idx, f) ==
    IF ~f.exists THEN [index |-> idx, error |-> "FileNotFoundError"]
    ELSE ListIndex_read_records(
            [index |-> [EmptyIndex EXCEPT !.num_documents = f.number_of_documents],
             error |-> "none"],
            f.records)

\* DictBasedInvertedIndexWithFrequencies.read, the loop over the lines after
\* the header (lines 331-336): record['index'] is stored as json.loads gives
\* it, an object as a dict, an array as a list of dicts.
RECURSIVE DictIndex_read_records(_, _)
DictIndex_read_records(st, records) ==
    IF records = <<>> THEN st
    ELSE LET record == Head(records)
             members == record.index.members
             is_array == record.index.shape = "array"
             entry == [j \in 1..Len(members) |->
                         IF is_array
                         THEN <<members[j].doc_id, json_loads_float(members[j].tf)>>
                         ELSE <<members[j][1], json_loads_float(members[j][2])>>]
         IN  DictIndex_read_records(
                 [st EXCEPT !.index =
                    [@ EXCEPT
                       !.doc_counts = DictSet(@, record.term, record.documents_count),
                       !.term_to_doc_id_and_frequencies = (record.term :> entry) @@ @,
                       !.list_valued = IF is_array THEN @ \cup {record.term}
                                       ELSE @ \ {record.term}]],
                 Tail(records))

\* DictBasedInvertedIndexWithFrequencies.read on the index idx.
DictIndex_read(idx, f) ==
    IF ~f.exists THEN [index |-> idx, error |-> "FileNotFoundError"]
    ELSE DictIndex_read_records(
            [index |-> [EmptyIndex EXCEPT !.num_documents = f.number_of_documents],
             error |-> "none"],
            f.records)

\* --------------------------------------------------------------- tokenizer
\* A text is a sequence of characters, a token the string of its characters.
UpperCase ==
    ("A" :> "a") @@ ("B" :> "b") @@ ("C" :> "c") @@ ("D" :> "d") @@ ("E" :> "e") @@
    ("F" :> "f") @@ ("G" :> "g") @@ ("H" :> "h") @@ ("I" :> "i") @@ ("J" :> "j") @@
    ("K" :> "k") @@ ("L" :> "l") @@ ("M" :> "m") @@ ("N" :> "n") @@ ("O" :> "o") @@
    ("P" :> "p") @@ ("Q" :> "q") @@ ("R" :> "r") @@ ("S" :> "s") @@ ("T" :> "t") @@
    ("U" :> "u") @@ ("V" :> "v") @@ ("W" :> "w") @@ ("X" :> "x") @@ ("Y" :> "y") @@
    ("Z" :> "z")

\* \w: letters, digits and the underscore
WordChars ==
    DOMAIN UpperCase \cup { UpperCase[c] : c \in DOMAIN UpperCase }
        \cup {"0", "1", "2", "3", "4", "5", "6", "7", "8", "9", "_"}

\* \s
WhiteSpace == {" "}

\* data.lower()
lower(data) ==
    [i \in 1..Len(data) |->
        IF data[i] \in DOMAIN UpperCase THEN UpperCase[data[i]] ELSE data[i]]

\* re.sub(r'(\W)', r' \1 ', ...): a space before and after every character
\* that is not a word character.
RECURSIVE split_off_non_word(_)
split_off_non_word(text) ==
    IF text = <<>> THEN <<>>
    ELSE (IF Head(text) \in WordChars THEN <<Head(text)>>
          ELSE <<" ", Head(text), " ">>) \o split_off_non_word(Tail(text))

\* The end of the longest run of characters of the set cs that starts at
\* position i of text (i - 1 when text[i] is not in cs).
RECURSIVE run_end(_, _, _)
run_end(text, i, cs) ==
    IF i <= Len(text) /\ text[i] \in cs THEN run_end(text, i + 1, cs) ELSE i - 1

\* re.sub(r'(\w+)\s(\')\s(\w+)', r'\1\2\3', ...) from position i on:
\* matches are taken from left to right and do not overlap.
RECURSIVE fix_apostrophes(_, _)
fix_apostrophes(text, i) ==
    IF i > Len(text) THEN <<>>
    ELSE IF text[i] \notin WordChars
    THEN <<text[i]>> \o fix_apostrophes(text, i + 1)
    ELSE LET j == run_end(text, i, WordChars)
             k == run_end(text, j + 4, WordChars)
         IN  IF /\ j + 4 <= Len(text)
                /\ text[j + 1] \in WhiteSpace
                /\ text[j + 2] = "'"
                /\ text[j + 3] \in WhiteSpace
                /\ text[j + 4] \in WordChars
             THEN SubSeq(text, i, j) \o <<"'">> \o SubSeq(text, j + 4, k)
                      \o fix_apostrophes(text, k + 1)
             ELSE SubSeq(text, i, j) \o fix_apostrophes(text, j + 1)

\* Mutant of group_ellipsis: the pattern is r'\.\s+\.', two periods.
RECURSIVE group_ellipsis_two_periods(_, _)
group_ellipsis_two_periods(text, i) ==
    IF i > Len(text) THEN <<>>
    ELSE LET a == run_end(text, i + 1, WhiteSpace)
         IN  IF /\ text[i] = "."
                /\ a >= i + 1 /\ a + 1 <= Len(text) /\ text[a + 1] = "."
             THEN <<" ", ".", ".", ".">> \o group_ellipsis_two_periods(text, a + 2)
             ELSE <<text[i]>> \o group_ellipsis_two_periods(text, i + 1)

\* re.sub(r'\.\s+\.\s+\.', r' ...', ...) from position i on.
RECURSIVE group_ellipsis(_, _)
group_ellipsis(text, i) ==
    IF i > Len(text) THEN <<>>
    ELSE LET a == run_end(text, i + 1, WhiteSpace)
             b == run_end(text, a + 2, WhiteSpace)
         IN  IF /\ text[i] = "."
                /\ a >= i + 1 /\ a + 1 <= Len(text) /\ text[a + 1] = "."
                /\ b >= a + 2 /\ b + 1 <= Len(text) /\ text[b + 1] = "."
             THEN <<" ", ".", ".", ".">> \o group_ellipsis(text, b + 2)
             ELSE <<text[i]>> \o group_ellipsis(text, i + 1)

\* The string of a sequence of characters.
RECURSIVE string_of(_)
string_of(chars) ==
    IF chars = <<>> THEN "" ELSE Head(chars) \o string_of(Tail(chars))

\* str.split(): the runs of characters that are not white space, each as
\* the sequence of its characters.
RECURSIVE split_runs(_, _)
split_runs(text, i) ==
    IF i > Len(text) THEN <<>>
    ELSE IF text[i] \in WhiteSpace THEN split_runs(text, i + 1)
    ELSE LET NonSpace == { text[n] : n \in 1..Len(text) } \ WhiteSpace
             j == run_end(text, i, NonSpace)
         IN  <<SubSeq(text, i, j)>> \o split_runs(text, j + 1)

\* str.split(): the runs as strings.
split(text, i) ==
    LET runs == split_runs(text, i)
    IN  [n \in 1..Len(runs) |-> string_of(runs[n])]

\* NaiveTokenizer.tokenize, the characters of each token.
tokenize_chars(data) ==
    split_runs(
        group_ellipsis(fix_apostrophes(split_off_non_word(lower(data)), 1), 1), 1)

\* NaiveTokenizer.tokenize
tokenize(data) ==
    split(group_ellipsis(fix_apostrophes(split_off_non_word(lower(data)), 1), 1), 1)

\* ----------------------------------------------------------- query process
\* Query(...), the __init__ of the dataclass: terms, alternatives and
\* num_results are required arguments; args are the arguments given.
Query_init(args) ==
    IF {"terms", "alternatives", "num_results"} \subseteq DOMAIN args
    THEN [error |-> "none", query |-> args]
    ELSE [error |-> "TypeError", query |-> args]

\* NaiveQueryParser.process_query
process_query(query_str, num_results) ==
    Query_init([terms |-> tokenize(query_str), num_results |-> num_results])

\* NaiveResultFormatter.format_results_for_display: repr(results), the text
\* SearchResults(result_doc_ids=[...]).
format_results_for_display(results) == <<"SearchResults", results.result_doc_ids>>

\* The iteration orders of the search that run makes, none when
\* process_query raised.
RunOrders(index, query_string, num_results) ==
    LET parsed == process_query(query_string, num_results)
    IN  IF parsed.error = "none" THEN IterationOrders(index, parsed.query)
        ELSE { <<>> }

\* QueryProcess.run on a dict-based index: an exception of process_query or
\* of search leaves run.
run(index, query_string, num_results, order) ==
    LET parsed == process_query(query_string, num_results)
        results == DictIndex_search(index, parsed.query, order)
    IN  IF parsed.error # "none"
        THEN [error |-> parsed.error, output |-> <<>>, index |-> index]
        ELSE IF results.error # "none"
        THEN [error |-> results.error, output |-> <<>>, index |-> results.index]
        ELSE [error |-> "none",
              output |-> format_results_for_display(results),
              index |-> results.index]

\* The texts typed as a query: "alpha beta", "", "Zeta", "beta's", "alpha...",
\* "alpha, zeta?" and " beta  alpha ".
QueryStrings ==
    { <<"a", "l", "p", "h", "a", " ", "b", "e", "t", "a">>,
      <<>>,
      <<"Z", "e", "t", "a">>,
      <<"b", "e", "t", "a", "'", "s">>,
      <<"a", "l", "p", "h", "a", ".", ".", ".">>,
      <<"a", "l", "p", "h", "a", ",", " ", "z", "e", "t", "a", "?">>,
      <<" ", "b", "e", "t", "a", " ", " ", "a", "l", "p", "h", "a", " ">> }

\* ----------------------------------------------------------------- actions
\* The program is single-threaded: a call is made when the previous one has
\* returned.  call holds the call in progress and its return value until the
\* caller takes it.
Idle == [op |-> "none"]

\* The query process makes a new index of each variant (query_process.py
\* lines 140, 157) and has it read a file.
FreshIndexes ==
    [path |-> "none",
     list |-> EmptyIndex, list_error |-> "none",
     dict |-> EmptyIndex, dict_error |-> "none"]

Init ==
    /\ naiveIndex = <<>>
    /\ listIndex = EmptyIndex
    /\ dictIndex = EmptyIndex
    /\ call = Idle
    /\ file = [list |-> NoFile, dict |-> NoFile]
    /\ loaded = FreshIndexes
    /\ term_alternatives = [is_defaultdict |-> FALSE, keys |-> <<>>]
    /\ documents = <<>>

\* add_document(doc) on an index of each variant.
AddDocument ==
    /\ call = Idle
    /\ Len(naiveIndex) < MaxDocs
    /\ \E doc \in Corpus :
        /\ naiveIndex' = NaiveIndex_add_document(naiveIndex, doc)
        /\ listIndex' = ListIndex_add_document(listIndex, doc)
        /\ dictIndex' = DictIndex_add_document(dictIndex, doc)
        /\ call' = [op |-> "add_document", doc |-> doc]
        /\ UNCHANGED <<file, loaded, term_alternatives, documents>>

\* search(query) on the index of each variant.
Search ==
    /\ call = Idle
    /\ \E query \in Queries :
        LET naive == NaiveIndex_search(naiveIndex, query)
            list == ListIndex_search(listIndex, query)
        IN  \E order \in IterationOrders(dictIndex, query) :
                LET found == DictIndex_search(dictIndex, query, order)
                IN  /\ call' = [op |-> "search",
                                query |-> query,
                                naive |-> naive,
                                list |-> list,
                                dict |-> [error |-> found.error,
                                          result_doc_ids |-> found.result_doc_ids,
                                          scores |-> found.scores]]
                    /\ dictIndex' = found.index
                    /\ UNCHANGED <<naiveIndex, listIndex, file, loaded,
                                   term_alternatives, documents>>

\* The caller takes the return value.
Return ==
    /\ call # Idle
    /\ call' = Idle
    /\ UNCHANGED <<naiveIndex, listIndex, dictIndex, file, loaded,
                   term_alternatives, documents>>

Next == AddDocument \/ Search \/ Return

Spec == Init /\ [][Next]_vars

\* ------------------------------------------- build, persist, load and serve
\* The index is built by add_document and then written; nothing is added to
\* an index that has been written.
Build ==
    /\ ~file.dict.exists
    /\ AddDocument

\* write() on the list-based and on the dict-based index, each to its file.
Write ==
    /\ call = Idle
    /\ file' = [list |-> ListIndex_write(listIndex),
                dict |-> DictIndex_write(dictIndex)]
    /\ listIndex' = index_after_write(listIndex)
    /\ dictIndex' = index_after_write(dictIndex)
    /\ call' = [op |-> "write"]
    /\ UNCHANGED <<naiveIndex, loaded, term_alternatives, documents>>

\* A new index of each variant is made with the same file_path, the file of
\* the list-based or of the dict-based index, and reads it.
Read ==
    /\ call = Idle
    /\ \E path \in {"list", "dict"} :
        LET list == ListIndex_read(EmptyIndex, file[path])
            dict == DictIndex_read(EmptyIndex, file[path])
        IN  /\ loaded' = [path |-> path,
                          list |-> list.index, list_error |-> list.error,
                          dict |-> dict.index, dict_error |-> dict.error]
            /\ call' = [op |-> "read", path |-> path]
            /\ UNCHANGED <<naiveIndex, listIndex, dictIndex, file,
                                term_alternatives, documents>>

\* The queries the query process is given: those that ask for as many
\* results as there can be documents.
LoadedQueries == { q \in Queries : q.num_results = MaxDocs }

\* search(query) on the indexes of the query process, once they have read a
\* file.  An index whose read raised is not searched: the exception left the
\* query process unmade.
LoadedSearch ==
    /\ call = Idle
    /\ loaded.path # "none"
    /\ loaded.list_error = "none" \/ loaded.dict_error = "none"
    /\ \E query \in LoadedQueries :
        LET list == IF loaded.list_error = "none"
                    THEN ListIndex_search(loaded.list, query)
                    ELSE Raised(loaded.list_error)
        IN  \E order \in IterationOrders(loaded.dict, query) :
                LET found == IF loaded.dict_error = "none"
                             THEN DictIndex_search(loaded.dict, query, order)
                             ELSE Raised(loaded.dict_error) @@ [index |-> loaded.dict]
                IN  /\ call' = [op |-> "loaded_search",
                                query |-> query,
                                order |-> order,
                                list |-> list,
                                dict |-> [error |-> found.error,
                                          result_doc_ids |-> found.result_doc_ids,
                                          scores |-> found.scores]]
                    /\ loaded' = [loaded EXCEPT !.dict = found.index]
                    /\ UNCHANGED <<naiveIndex, listIndex, dictIndex, file,
                                term_alternatives, documents>>

\* QueryProcess.run(query_string, num_results) of the query process made
\* with the dict-based index that has read a file.
Run ==
    /\ call = Idle
    /\ loaded.path # "none"
    /\ loaded.dict_error = "none"
    /\ \E query_string \in QueryStrings, num_results \in {1, MaxDocs} :
        \E order \in RunOrders(loaded.dict, query_string, num_results) :
            LET ran == run(loaded.dict, query_string, num_results, order)
            IN  /\ call' = [op |-> "run",
                            query_string |-> query_string,
                            num_results |-> num_results,
                            order |-> order,
                            error |-> ran.error,
                            output |-> ran.output]
                /\ loaded' = [loaded EXCEPT !.dict = ran.index]
                /\ UNCHANGED <<naiveIndex, listIndex, dictIndex, file,
                                term_alternatives, documents>>

NextFile == Build \/ Write \/ Read \/ LoadedSearch \/ Run \/ Return

SpecFile == Init /\ [][NextFile]_vars

\* ------------------------------------------ one index through its lifetime
\* read() on the list-based and on the dict-based index that add_document
\* built, each from its own file.
Reread ==
    /\ call = Idle
    /\ LET list == ListIndex_read(listIndex, file.list)
           dict == DictIndex_read(dictIndex, file.dict)
       IN  /\ listIndex' = list.index
           /\ dictIndex' = dict.index
           /\ call' = [op |-> "reread",
                       list_error |-> list.error,
                       dict_error |-> dict.error,
                       before |-> [list |-> listIndex, dict |-> dictIndex]]
    /\ UNCHANGED <<naiveIndex, file, loaded, term_alternatives, documents>>

\* The queries an index is given between its writes and reads: no term, an
\* indexed term, a term that is in no document, and pairs of them, with each
\* of the alternatives maps.
BuiltTerms ==
    { <<>>, <<"alpha">>, <<"zeta">>, <<"alpha", "beta">>, <<"zeta", "alpha">> }

BuiltQueries ==
    { q \in Queries : q.num_results = MaxDocs /\ q.terms \in BuiltTerms }

\* search(query) on the list-based and on the dict-based index that
\* add_document built, whether or not it has been written or has read its
\* file since.
SearchBuilt ==
    /\ call = Idle
    /\ \E query \in BuiltQueries :
        LET list == ListIndex_search(listIndex, query)
        IN  \E order \in IterationOrders(dictIndex, query) :
                LET found == DictIndex_search(dictIndex, query, order)
                IN  /\ call' = [op |-> "search_built",
                                query |-> query,
                                order |-> order,
                                list |-> list,
                                dict |-> [error |-> found.error,
                                          result_doc_ids |-> found.result_doc_ids,
                                          scores |-> found.scores]]
                    /\ dictIndex' = found.index
                    /\ UNCHANGED <<naiveIndex, listIndex, file, loaded,
                                   term_alternatives, documents>>

NextIndex == AddDocument \/ SearchBuilt \/ Write \/ Reread \/ Return

SpecIndex == Init /\ [][NextIndex]_vars

\* ---------------------------------------------------------- query expansion
\* d[k] of a dict or a defaultdict(list) of lists: a defaultdict stores and
\* gives an empty list for a missing key, a plain dict raises KeyError.
dict_getitem(d, k) ==
    IF k \in DOMAIN d.keys
    THEN [error |-> "none", value |-> d.keys[k], dict |-> d]
    ELSE IF d.is_defaultdict
    THEN [error |-> "none", value |-> <<>>,
          dict |-> [d EXCEPT !.keys = (k :> <<>>) @@ @]]
    ELSE [error |-> "KeyError", value |-> <<>>, dict |-> d]

\* d[k] = v
dict_setitem(d, k, v) ==
    [d EXCEPT !.keys = (k :> v) @@ [x \in DOMAIN @ \ {k} |-> @[x]]]

\* JsonlThesaurusTermAlternativesSource.read: a defaultdict(list) with the
\* records of the file whose syns are not empty.
RECURSIVE JsonlThesaurus_read(_, _)
JsonlThesaurus_read(alternatives, records) ==
    IF records = <<>> THEN alternatives
    ELSE LET record == Head(records)
         IN  JsonlThesaurus_read(
                 IF record.syns # <<>>
                 THEN dict_setitem(alternatives, record.term, record.syns)
                 ELSE alternatives,
                 Tail(records))

\* ThesaurusQueryExpander.add_alternatives: alternatives is given with its
\* type; anything but a non-empty list is ignored.
add_alternatives(table, term, alternatives) ==
    IF alternatives.is_list /\ Len(alternatives.items) > 0
    THEN dict_setitem(table, term, alternatives.items)
    ELSE table

\* ThesaurusQueryExpander.get_alternatives: dict.get inserts nothing.
get_alternatives(table, term) ==
    IF term \in DOMAIN table.keys THEN table.keys[term] ELSE <<>>

\* Mutant of expander_process_query: every term is looked up, without the
\* membership test.
RECURSIVE expander_process_query_lookup_every_term(_, _, _)
expander_process_query_lookup_every_term(table, synonyms, query_terms) ==
    IF query_terms = <<>> THEN [synonyms |-> synonyms, table |-> table]
    ELSE LET found == dict_getitem(table, Head(query_terms))
         IN  IF found.error # "none"
             THEN expander_process_query_lookup_every_term(
                      table, synonyms, Tail(query_terms))
             ELSE expander_process_query_lookup_every_term(
                      found.dict,
                      dict_setitem(synonyms, Head(query_terms), found.value),
                      Tail(query_terms))

\* ThesaurusQueryExpander.process_query, the loop over query_terms from the
\* synonyms gathered so far: the map returned and the table afterwards.
RECURSIVE expander_process_query(_, _, _)
expander_process_query(table, synonyms, query_terms) ==
    IF query_terms = <<>> THEN [synonyms |-> synonyms, table |-> table]
    ELSE LET term == Head(query_terms)
             found == dict_getitem(table, term)
         IN  IF term \in DOMAIN table.keys
             THEN expander_process_query(
                      found.dict,
                      dict_setitem(synonyms, term, found.value),
                      Tail(query_terms))
             ELSE expander_process_query(table, synonyms, Tail(query_terms))

\* The dicts ThesaurusQueryExpander is made with, as in test_query_expansion.
GivenTables ==
    { [is_defaultdict |-> FALSE, keys |-> <<>>],
      [is_defaultdict |-> FALSE,
       keys |-> ("alpha" :> <<"gamma", "delta">>) @@ ("gamma" :> <<"alpha">>)] }

\* Thesaurus files: the records of the lines, some with empty syns.
ThesaurusFiles ==
    { << [term |-> "beta", syns |-> <<"gamma">>],
         [term |-> "zeta", syns |-> <<>>] >>,
      << [term |-> "alpha", syns |-> <<"beta">>],
         [term |-> "alpha", syns |-> <<"zeta", "beta">>] >> }

\* The arguments of add_alternatives: two lists and a tuple.
AlternativesArguments ==
    { [is_list |-> TRUE, items |-> <<>>],
      [is_list |-> TRUE, items |-> <<"delta">>],
      [is_list |-> FALSE, items |-> <<"delta">>] }

\* ------------------------------------------------------ document collection
\* The values insert is called with: InputDocuments (two of them with the
\* doc_id A, one with an empty text), None and a string.  The texts are
\* "Alpha beta, beta", "beta's", "" and "gamma...".
None == [type |-> "NoneType", doc_id |-> "", text |-> <<>>]

InputDocuments ==
    { [type |-> "InputDocument", doc_id |-> "A",
       text |-> <<"A", "l", "p", "h", "a", " ", "b", "e", "t", "a", ",", " ",
                  "b", "e", "t", "a">>],
      [type |-> "InputDocument", doc_id |-> "B",
       text |-> <<"b", "e", "t", "a", "'", "s">>],
      [type |-> "InputDocument", doc_id |-> "C", text |-> <<>>],
      [type |-> "InputDocument", doc_id |-> "A",
       text |-> <<"g", "a", "m", "m", "a", ".", ".", ".">>] }

InsertArguments ==
    InputDocuments \cup
    { None, [type |-> "str", doc_id |-> "", text |-> <<"d", "1">>] }

\* The doc_ids asked for: Z is the id of no document.
RequestedIds == {"A", "B", "Z"}

\* DictDocumentCollection.insert
DictDocumentCollection_insert(docs, doc) ==
    IF doc.type = "InputDocument" THEN DictSet(docs, doc.doc_id, doc) ELSE docs

\* DictDocumentCollection.get_doc: self.documents.get(doc_id)
DictDocumentCollection_get_doc(docs, doc_id) ==
    IF doc_id \in DictKeys(docs) THEN DictGet(docs, doc_id) ELSE None

\* Mutant of DictDocumentCollection_get_docs: the documents of the
\* collection are returned, whatever ids are asked for.
DictDocumentCollection_get_docs_all(docs, doc_ids, doc_collection) == docs

\* DictDocumentCollection.get_docs, the loop over doc_ids from the new
\* collection doc_collection.
RECURSIVE DictDocumentCollection_get_docs(_, _, _)
DictDocumentCollection_get_docs(docs, doc_ids, doc_collection) ==
    IF doc_ids = <<>> THEN doc_collection
    ELSE DictDocumentCollection_get_docs(
             docs, Tail(doc_ids),
             DictDocumentCollection_insert(
                 doc_collection,
                 DictDocumentCollection_get_doc(docs, Head(doc_ids))))

\* DictDocumentCollection.__iter__: the values in insertion order.
DictDocumentCollection_iter(docs) == [i \in 1..Len(docs) |-> docs[i][2]]

\* ---------------------------------------------------------- indexing process
\* NaiveSearchDocumentTransformer.transform_document
transform_document(doc) ==
    [doc_id |-> doc.doc_id, tokens |-> tokenize(doc.text)]

\* What run has made so far: the new index, of each variant, and the
\* sequence of the add_document calls made on it.
NewIndex ==
    [naive |-> <<>>, list |-> EmptyIndex, dict |-> EmptyIndex, added |-> <<>>]

\* Mutant of DefaultIndexingProcess_loop: a document without tokens is not
\* added.
RECURSIVE DefaultIndexingProcess_loop_skipping_empty(_, _)
DefaultIndexingProcess_loop_skipping_empty(document_collection, index) ==
    IF document_collection = <<>> THEN index
    ELSE LET transformed_doc == transform_document(Head(document_collection))
         IN  DefaultIndexingProcess_loop_skipping_empty(
                 Tail(document_collection),
                 IF transformed_doc.tokens = <<>> THEN index
                 ELSE [naive |-> NaiveIndex_add_document(index.naive, transformed_doc),
                       list |-> ListIndex_add_document(index.list, transformed_doc),
                       dict |-> DictIndex_add_document(index.dict, transformed_doc),
                       added |-> Append(index.added, transformed_doc)])

\* DefaultIndexingProcess.run, the loop over the documents of the collection.
RECURSIVE DefaultIndexingProcess_loop(_, _)
DefaultIndexingProcess_loop(document_collection, index) ==
    IF document_collection = <<>> THEN index
    ELSE LET transformed_doc == transform_document(Head(document_collection))
         IN  DefaultIndexingProcess_loop(
                 Tail(document_collection),
                 [naive |-> NaiveIndex_add_document(index.naive, transformed_doc),
                  list |-> ListIndex_add_document(index.list, transformed_doc),
                  dict |-> DictIndex_add_document(index.dict, transformed_doc),
                  added |-> Append(index.added, transformed_doc)])

\* DefaultIndexingProcess.run(source), source.read() giving the collection.
DefaultIndexingProcess_run(docs) ==
    DefaultIndexingProcess_loop(DictDocumentCollection_iter(docs), NewIndex)

\* ------------------------------------- calls of the indexing-side components
\* ThesaurusQueryExpander(term_alternatives)
MakeExpander ==
    /\ call = Idle
    /\ \E given \in GivenTables :
        /\ term_alternatives' = given
        /\ call' = [op |-> "make_expander"]
    /\ UNCHANGED <<naiveIndex, listIndex, dictIndex, file, loaded, documents>>

\* JsonlThesaurusTermAlternativesSource(file_path).read()
ReadThesaurus ==
    /\ call = Idle
    /\ \E records \in ThesaurusFiles :
        /\ term_alternatives' =
               JsonlThesaurus_read([is_defaultdict |-> TRUE, keys |-> <<>>], records)
        /\ call' = [op |-> "read_thesaurus"]
    /\ UNCHANGED <<naiveIndex, listIndex, dictIndex, file, loaded, documents>>

\* add_alternatives(term, alternatives)
AddAlternatives ==
    /\ call = Idle
    /\ \E term \in {"beta", "zeta"}, alternatives \in AlternativesArguments :
        /\ term_alternatives' = add_alternatives(term_alternatives, term, alternatives)
        /\ call' = [op |-> "add_alternatives", term |-> term,
                    alternatives |-> alternatives]
    /\ UNCHANGED <<naiveIndex, listIndex, dictIndex, file, loaded, documents>>

\* get_alternatives(term)
GetAlternatives ==
    /\ call = Idle
    /\ \E term \in QueryTerms :
        call' = [op |-> "get_alternatives", term |-> term,
                 alternatives |-> get_alternatives(term_alternatives, term)]
    /\ UNCHANGED <<naiveIndex, listIndex, dictIndex, file, loaded,
                   term_alternatives, documents>>

\* ThesaurusQueryExpander.process_query(query_terms)
ExpandQuery ==
    /\ call = Idle
    /\ \E query_terms \in SeqsUpTo(QueryTerms, MaxQueryTerms) :
        LET done == expander_process_query(
                        term_alternatives,
                        [is_defaultdict |-> TRUE, keys |-> <<>>],
                        query_terms)
        IN  /\ term_alternatives' = done.table
            /\ call' = [op |-> "process_query", query_terms |-> query_terms,
                        synonyms |-> done.synonyms]
    /\ UNCHANGED <<naiveIndex, listIndex, dictIndex, file, loaded, documents>>

\* DictDocumentCollection.insert(doc)
Insert ==
    /\ call = Idle
    /\ \E doc \in InsertArguments :
        /\ documents' = DictDocumentCollection_insert(documents, doc)
        /\ call' = [op |-> "insert", doc |-> doc]
    /\ UNCHANGED <<naiveIndex, listIndex, dictIndex, file, loaded,
                   term_alternatives>>

\* DictDocumentCollection.get_doc(doc_id)
GetDoc ==
    /\ call = Idle
    /\ \E doc_id \in RequestedIds :
        call' = [op |-> "get_doc", doc_id |-> doc_id,
                 doc |-> DictDocumentCollection_get_doc(documents, doc_id)]
    /\ UNCHANGED <<naiveIndex, listIndex, dictIndex, file, loaded,
                   term_alternatives, documents>>

\* DictDocumentCollection.get_docs(doc_ids)
GetDocs ==
    /\ call = Idle
    /\ \E doc_ids \in SeqsUpTo(RequestedIds, MaxDocs) :
        call' = [op |-> "get_docs", doc_ids |-> doc_ids,
                 doc_collection |->
                     DictDocumentCollection_get_docs(documents, doc_ids, <<>>)]
    /\ UNCHANGED <<naiveIndex, listIndex, dictIndex, file, loaded,
                   term_alternatives, documents>>

\* DefaultIndexingProcess.run(source) on a source that gives the collection;
\* the index it returns is the caller's.
IndexingRun ==
    /\ call = Idle
    /\ call' = [op |-> "indexing_run",
                index |-> DefaultIndexingProcess_run(documents)]
    /\ UNCHANGED <<naiveIndex, listIndex, dictIndex, file, loaded,
                   term_alternatives, documents>>

NextPipeline ==
    \/ MakeExpander \/ ReadThesaurus \/ AddAlternatives \/ GetAlternatives
    \/ ExpandQuery \/ Insert \/ GetDoc \/ GetDocs \/ IndexingRun \/ Return

SpecPipeline == Init /\ [][NextPipeline]_vars

\* ---------------------------------------------------------- tokenizer calls
\* Length of a text given to the tokenizer.
MaxTextLen == 5

\* The characters of those texts: a lower-case and an upper-case letter, the
\* apostrophe, the period, the space and one more punctuation mark.
TextChars == {"a", "B", "'", ".", " ", "?"}

\* The examples of test_tokenizer.py, each the text and the tokens the test
\* expects: "word1 word2", "For now, we are here", "For now, we are here.",
\* "10% of $10 is $1", "He said 'Isn't O'Brian the best?'" and "More...".
TestExamples ==
    { << <<"w", "o", "r", "d", "1", " ", "w", "o", "r", "d", "2">>,
         <<"word1", "word2">> >>,
      << <<"F", "o", "r", " ", "n", "o", "w", ",", " ", "w", "e", " ", "a",
           "r", "e", " ", "h", "e", "r", "e">>,
         <<"for", "now", ",", "we", "are", "here">> >>,
      << <<"F", "o", "r", " ", "n", "o", "w", ",", " ", "w", "e", " ", "a",
           "r", "e", " ", "h", "e", "r", "e", ".">>,
         <<"for", "now", ",", "we", "are", "here", ".">> >>,
      << <<"1", "0", "%", " ", "o", "f", " ", "$", "1", "0", " ", "i", "s",
           " ", "$", "1">>,
         <<"10", "%", "of", "$", "10", "is", "$", "1">> >>,
      << <<"H", "e", " ", "s", "a", "i", "d", " ", "'", "I", "s", "n", "'",
           "t", " ", "O", "'", "B", "r", "i", "a", "n", " ", "t", "h", "e",
           " ", "b", "e", "s", "t", "?", "'">>,
         <<"he", "said", "'", "isn't", "o'brian", "the", "best", "?",
           "'">> >>,
      << <<"M", "o", "r", "e", ".", ".", ".">>,
         <<"more", "...">> >> }

TestTexts == { e[1] : e \in TestExamples }

Texts == SeqsUpTo(TextChars, MaxTextLen) \cup TestTexts

\* NaiveTokenizer().tokenize(data)
Tokenize ==
    /\ call = Idle
    /\ \E data \in Texts :
        call' = [op |-> "tokenize", data |-> data, tokens |-> tokenize(data)]
    /\ UNCHANGED <<naiveIndex, listIndex, dictIndex, file, loaded,
                   term_alternatives, documents>>

NextTokenizer == Tokenize \/ Return

SpecTokenizer == Init /\ [][NextTokenizer]_vars

\* ------------------------------------------------- vocabulary of the claims
IsSearch == call.op = "search"

\* Every word that occurs in a document, a query or an alternatives list.
Words ==
    UNION { Range(d.tokens) : d \in Corpus } \cup QueryTerms \cup
    UNION { UNION { Range(am.keys[t]) : t \in DOMAIN am.keys } : am \in AlternativesMaps }

Postings == dictIndex.term_to_doc_id_and_frequencies

\* keys(postings[w]), empty for a word that is not indexed
PostingsKeySet(w) ==
    IF w \in DOMAIN Postings THEN { Postings[w][i][1] : i \in 1..Len(Postings[w]) }
    ELSE {}

\* G_i: the term at position i and its listed alternatives
Group(q, i) == { q.terms[i] } \cup Range(alternatives_of(q, q.terms[i]))

\* C = the intersection over the positions of the union over the group
CandidateSet(q) ==
    { d \in DocIds : \A i \in 1..Len(q.terms) :
                        \E g \in Group(q, i) : d \in PostingsKeySet(g) }

EveryTermHasAList(q) ==
    \A i \in 1..Len(q.terms) : q.terms[i] \in DOMAIN q.alternatives.keys

AllAlternativesEmpty(q) ==
    \A i \in 1..Len(q.terms) :
        has_alternatives(q, q.terms[i]) /\ alternatives_of(q, q.terms[i]) = <<>>

NoDuplicates(seq) == \A i, j \in 1..Len(seq) : seq[i] = seq[j] => i = j

\* tf(w, d) * idf(df(w), N) in the dict-based index, 0 when d has no w
Contribution(w, d) ==
    IF d \in PostingsKeySet(w)
    THEN DictGet(Postings[w], d) *
         inverse_document_frequency(CounterGet(dictIndex.doc_counts, w),
                                    dictIndex.num_documents)
    ELSE 0

\* The sum over the words ws of mult[w] * Contribution(w, d)
RECURSIVE WeightedSum(_, _, _)
WeightedSum(ws, mult, d) ==
    IF ws = {} THEN 0
    ELSE LET w == CHOOSE x \in ws : TRUE
         IN  mult[w] * Contribution(w, d) + WeightedSum(ws \ {w}, mult, d)

Occurrences(q, w) == Cardinality({ i \in 1..Len(q.terms) : q.terms[i] = w })

ListedAsAlternative(q, w) ==
    \E i \in 1..Len(q.terms) : w \in Range(alternatives_of(q, q.terms[i]))

\* Each surface form of the query once.
OnceEach(q) ==
    [w \in Words |-> IF Occurrences(q, w) > 0 \/ ListedAsAlternative(q, w) THEN 1 ELSE 0]

\* Each original term once per position, each listed alternative once more.
PerOccurrence(q) ==
    [w \in Words |-> Occurrences(q, w) + IF ListedAsAlternative(q, w) THEN 1 ELSE 0]

\* The documents added so far, as NaiveIndex.docs records them.
Added == Range(naiveIndex)

DistinctDocIds ==
    \A i, j \in 1..Len(naiveIndex) : naiveIndex[i].doc_id = naiveIndex[j].doc_id => i = j

ContainsEveryTerm(doc, terms) == Range(terms) \subseteq Range(doc.tokens)

DocumentFrequency(t) ==
    Cardinality({ i \in 1..Len(naiveIndex) : t \in Range(naiveIndex[i].tokens) })

\* The sum over the positions of terms of tf(t, doc) * idf(df(t), N), from
\* the documents themselves.
RECURSIVE TfIdfSum(_, _)
TfIdfSum(doc, terms) ==
    IF terms = <<>> THEN 0
    ELSE (IF Head(terms) \in Range(doc.tokens)
          THEN term_frequency(CountOf(doc.tokens, Head(terms)), Len(doc.tokens)) *
               inverse_document_frequency(DocumentFrequency(Head(terms)), Len(naiveIndex))
          ELSE 0) + TfIdfSum(doc, Tail(terms))

DocWithId(id) == CHOOSE d \in Added : d.doc_id = id

RankedByTfIdf(ids, terms) ==
    \A i, j \in 1..Len(ids) :
        i < j => TfIdfSum(DocWithId(ids[i]), terms) >= TfIdfSum(DocWithId(ids[j]), terms)

\* The index of the basic TF-IDF scenario: A, B and C, in any order.
ScenarioS2 ==
    /\ Len(naiveIndex) = 3
    /\ Added = { [doc_id |-> "A", tokens |-> <<"alpha", "beta", "beta", "gamma">>],
                 [doc_id |-> "B", tokens |-> <<"alpha", "alpha", "beta">>],
                 [doc_id |-> "C", tokens |-> <<"gamma", "delta">>] }

\* ------------------------------------------------------------------ claims
\* C1: dict-based search, every term with an alternatives list, num_results
\* at least the number of indexed documents, at least one term: the set of
\* returned doc_ids is the intersection over the positions of the union of
\* the postings key sets of the term and of its indexed alternatives.  A
\* document that has only an alternative of a term is returned, and so is a
\* candidate whose score is 0.
C1_CandidateSetReturned ==
    (/\ IsSearch
     /\ call.query.terms # <<>>
     /\ EveryTermHasAList(call.query)
     /\ call.query.num_results >= dictIndex.num_documents)
    => /\ call.dict.error = "none"
       /\ NoDuplicates(call.dict.result_doc_ids)
       /\ Range(call.dict.result_doc_ids) = CandidateSet(call.query)

\* C1 witness: a returned document matches a position only through an
\* alternative (the term itself is in no document) and has score 0.
C1_Witness ==
    /\ IsSearch
    /\ call.query.terms # <<>>
    /\ EveryTermHasAList(call.query)
    /\ call.query.num_results >= dictIndex.num_documents
    /\ \E i \in 1..Len(call.query.terms) : call.query.terms[i] \notin DOMAIN Postings
    /\ \E d \in Range(call.dict.result_doc_ids) : DictGet(call.dict.scores, d) = 0

TopOfRanking(r, num_results) ==
    LET ids == r.result_doc_ids
        scored == DictKeys(r.scores)
        score(d) == DictGet(r.scores, d)
    IN  /\ NoDuplicates(ids)
        /\ Range(ids) \subseteq scored
        /\ Len(ids) = IF num_results < Cardinality(scored)
                      THEN num_results ELSE Cardinality(scored)
        /\ \A i, j \in 1..Len(ids) : i < j => score(ids[i]) >= score(ids[j])
        /\ \A d \in scored \ Range(ids) : \A i \in 1..Len(ids) : score(d) <= score(ids[i])

\* C3: for every search of the list-based and of the dict-based index that
\* returns, the returned doc_ids are in non-increasing order of score and are
\* the first num_results entries of the full ranking.
C3_RankedAndTruncated ==
    IsSearch => \A r \in { call.list, call.dict } :
                    r.error = "none" => TopOfRanking(r, call.query.num_results)

\* C3 witness: a dict-based search that ranked three documents and cut the
\* ranking to two of different scores, the list-based search ranking two.
C3_Witness ==
    /\ IsSearch
    /\ call.dict.error = "none"
    /\ Len(call.dict.scores) = 3
    /\ Len(call.dict.result_doc_ids) = 2
    /\ DictGet(call.dict.scores, call.dict.result_doc_ids[1])
          > DictGet(call.dict.scores, call.dict.result_doc_ids[2])
    /\ Len(call.list.result_doc_ids) = 2

\* C4: if at some position of the query neither the term nor any of its
\* listed alternatives is in the index, the dict-based search returns an
\* empty result; the list-based search does when the term is not indexed.
C4_UnmatchedPositionGivesEmpty ==
    IsSearch =>
        /\ (\E i \in 1..Len(call.query.terms) :
               \A g \in Group(call.query, i) : PostingsKeySet(g) = {})
           => (call.dict.error = "none" /\ call.dict.result_doc_ids = <<>>)
        /\ (\E i \in 1..Len(call.query.terms) :
               call.query.terms[i] \notin DOMAIN listIndex.term_to_doc_id_and_frequencies)
           => (call.list.error = "none" /\ call.list.result_doc_ids = <<>>)

\* C5: for every index variant the result of a search that returns is at
\* most num_results long (num_results = 0 gives an empty result).  Stated
\* for the queries with at least one term; the query without terms is C6.
C5_AtMostNumResults ==
    (IsSearch /\ call.query.terms # <<>>) => \A r \in { call.naive, call.list, call.dict } :
                    r.error = "none" => Len(r.result_doc_ids) <= call.query.num_results

\* C6: a query without terms gives an empty result and no error, for every
\* index variant.
C6_EmptyQueryEmptyResult ==
    (IsSearch /\ call.query.terms = <<>>)
    => \A r \in { call.naive, call.list, call.dict } :
          r.error = "none" /\ r.result_doc_ids = <<>>

\* The query with an empty alternatives list for each term that has none.
WithEmptyLists(q) ==
    [q EXCEPT !.alternatives.keys =
        [t \in DOMAIN q.alternatives.keys \cup Range(q.terms) |-> alternatives_of(q, t)]]

\* C7: a dict-based search of a query with a term that has no key in
\* Q.alternatives raises nothing and returns what the query with that term
\* mapped to an empty list returns.
C7_MissingKeyAsEmptyList ==
    (IsSearch /\ ~EveryTermHasAList(call.query))
    => /\ call.dict.error = "none"
       /\ call.dict.result_doc_ids \in
            { DictIndex_search(dictIndex, WithEmptyLists(call.query), o).result_doc_ids :
                o \in IterationOrders(dictIndex, WithEmptyLists(call.query)) }

\* The score the dict-based search gave to d.
Score(d) == DictGet(call.dict.scores, d)

Scored == DictKeys(call.dict.scores)

DictSearchReturned == IsSearch /\ call.dict.error = "none"

\* The words listed as an alternative of two different terms of the query.
SharedAlternatives(q) ==
    { w \in Words : \E i, j \in 1..Len(q.terms) :
        /\ q.terms[i] # q.terms[j]
        /\ w \in Range(alternatives_of(q, q.terms[i]))
        /\ w \in Range(alternatives_of(q, q.terms[j])) }

\* C8: a word listed as an alternative of two different terms of the query
\* (and not itself a term of it) adds its tf * idf to a document's score
\* exactly once.
C8_SharedAlternativeOnce ==
    DictSearchReturned =>
        \A w \in SharedAlternatives(call.query) \ Range(call.query.terms) :
            \A d \in Scored :
                Score(d) - WeightedSum(Words \ {w}, PerOccurrence(call.query), d)
                    = Contribution(w, d)

\* C8 witness: a scored document has a positive contribution from a word
\* that two different terms list as an alternative.
C8_Witness ==
    /\ DictSearchReturned
    /\ \E w \in SharedAlternatives(call.query) \ Range(call.query.terms) :
          \E d \in Scored : Contribution(w, d) > 0

\* The terms of q with each term kept at its first position only.
TermsOnce(q) == [q EXCEPT !.terms = CounterKeys(q.terms)]

HasRepeatedTerm(q) == ~NoDuplicates(q.terms)

\* The terms at several positions (that are not also listed as an alternative:
\* that case is C10's).
RepeatedTerms(q) ==
    { t \in Range(q.terms) : Occurrences(q, t) >= 2 /\ ~ListedAsAlternative(q, t) }

\* C9 as stated (for documents with distinct doc_ids): a term at several
\* positions leaves the candidate set as with the term listed once and adds
\* its tf * idf to a score once.
C9_RepeatedTermOnce ==
    (DictSearchReturned /\ HasRepeatedTerm(call.query) /\ DistinctDocIds) =>
        /\ Scored = CandidateSet(TermsOnce(call.query))
        /\ \A t \in RepeatedTerms(call.query) : \A d \in Scored :
              Score(d) - WeightedSum(Words \ {t}, PerOccurrence(call.query), d)
                  = Contribution(t, d)

\* C9 amended: a term at several positions leaves the candidate set as with
\* the term listed once and adds its tf * idf to a score once per occurrence.
C9_RepeatedTermPerOccurrence ==
    (DictSearchReturned /\ HasRepeatedTerm(call.query)) =>
        /\ Scored = CandidateSet(TermsOnce(call.query))
        /\ \A t \in RepeatedTerms(call.query) : \A d \in Scored :
              Score(d) - WeightedSum(Words \ {t}, PerOccurrence(call.query), d)
                  = Occurrences(call.query, t) * Contribution(t, d)

\* C9 witness: a scored document has a positive contribution from a term that
\* is at two positions of the query.
C9_Witness ==
    /\ DictSearchReturned
    /\ \E t \in RepeatedTerms(call.query) : \E d \in Scored : Contribution(t, d) > 0

\* C10 as stated (for documents with distinct doc_ids): every surface form of
\* a query with pairwise different terms adds its tf * idf to a score once,
\* also a word that is a term and an alternative of another term.
C10_EachSurfaceFormOnce ==
    (DictSearchReturned /\ NoDuplicates(call.query.terms) /\ DistinctDocIds)
    => \A d \in Scored : Score(d) = WeightedSum(Words, OnceEach(call.query), d)

\* C10 amended: every word adds its tf * idf once for each position of the
\* query it is the term of, and once more if it is listed as an alternative
\* of a term: alternatives are skipped when already scored as an alternative,
\* not when scored as a term.
C10_OncePerPositionPlusOnceAsAlternative ==
    DictSearchReturned
    => \A d \in Scored : Score(d) = WeightedSum(Words, PerOccurrence(call.query), d)

\* C10 witness: a scored document has a positive contribution from a word
\* that is a term of the query and an alternative of another term.
C10_Witness ==
    /\ DictSearchReturned
    /\ NoDuplicates(call.query.terms)
    /\ \E w \in Range(call.query.terms) :
          /\ ListedAsAlternative(call.query, w)
          /\ \E d \in Scored : Contribution(w, d) > 0

\* The query without the keys of Q.alternatives that are not among its terms.
WithoutExtraKeys(q) ==
    [q EXCEPT !.alternatives.keys =
        [t \in DOMAIN q.alternatives.keys \cap Range(q.terms) |-> q.alternatives.keys[t]]]

ExtraKeys(q) == DOMAIN q.alternatives.keys \ Range(q.terms)

\* What a dict-based search gives back, without the index.
Outcome(found) ==
    [error |-> found.error,
     result_doc_ids |-> found.result_doc_ids,
     scores |-> found.scores]

\* C12: for documents with distinct doc_ids and a query whose terms all have
\* an empty alternatives list, the list-based and the dict-based search
\* return the same doc_ids in the same order, ties included.
C12_ListAndDictRankAlike ==
    (IsSearch /\ AllAlternativesEmpty(call.query) /\ DistinctDocIds)
    => /\ call.list.error = "none"
       /\ call.dict.error = "none"
       /\ call.list.result_doc_ids = call.dict.result_doc_ids

\* The list-based or the dict-based index that add_document builds.
BuiltIndex(variant) == IF variant = "list" THEN listIndex ELSE dictIndex

Variants == {"list", "dict"}

\* C13: after add_document calls with pairwise distinct doc_ids, in both
\* inverted indexes num_documents is the number of documents added and, for
\* every word, doc_counts is the number of added documents whose tokens hold
\* it; a word in no document has count 0, no key in doc_counts and no postings.
C13_CountsAfterBuild ==
    DistinctDocIds =>
        \A v \in Variants :
            /\ BuiltIndex(v).num_documents = Len(naiveIndex)
            /\ \A w \in Words :
                  /\ CounterGet(BuiltIndex(v).doc_counts, w) = DocumentFrequency(w)
                  /\ DocumentFrequency(w) = 0 =>
                        /\ w \notin DictKeys(BuiltIndex(v).doc_counts)
                        /\ w \notin DOMAIN BuiltIndex(v).term_to_doc_id_and_frequencies

\* C13 witness: the three documents of the basic scenario have been added.
C13_Witness ==
    /\ call.op = "add_document"
    /\ ScenarioS2
    /\ listIndex.num_documents = 3
    /\ CounterGet(dictIndex.doc_counts, "alpha") = 2

\* C14: every postings entry (t, d, f) of both inverted indexes is that of an
\* added document with doc_id d: f is the number of occurrences of t in its
\* tokens divided by the length of its tokens, duplicates included, and
\* 0 < f <= 1 (f is in units of 1/TfScale).
C14_PostingsAreTermFrequencies ==
    \A v \in Variants :
        \A t \in DOMAIN BuiltIndex(v).term_to_doc_id_and_frequencies :
            LET entry == BuiltIndex(v).term_to_doc_id_and_frequencies[t]
            IN  \A j \in 1..Len(entry) :
                    /\ \E doc \in Added :
                          /\ doc.doc_id = entry[j][1]
                          /\ entry[j][2] * Len(doc.tokens)
                                = CountOf(doc.tokens, t) * TfScale
                    /\ 0 < entry[j][2]
                    /\ entry[j][2] <= TfScale

\* C14 witness: the dict-based index holds beta for document A, two
\* occurrences among four tokens.
C14_Witness ==
    /\ [doc_id |-> "A", tokens |-> <<"alpha", "beta", "beta", "gamma">>] \in Added
    /\ DistinctDocIds
    /\ "beta" \in DOMAIN Postings
    /\ "A" \in PostingsKeySet("beta")
    /\ 2 * DictGet(Postings["beta"], "A") = TfScale

\* C15: after add_document calls with pairwise distinct doc_ids, doc_counts of
\* a term is the number of entries of its postings, in both inverted
\* indexes, and every term record of the files that write made has
\* documents_count equal to the number of members of its index field.
C15_DocFrequencyIsPostingsSize ==
    DistinctDocIds =>
        /\ \A v \in Variants :
              \A t \in DictKeys(BuiltIndex(v).doc_counts)
                         \cup DOMAIN BuiltIndex(v).term_to_doc_id_and_frequencies :
                  CounterGet(BuiltIndex(v).doc_counts, t) = Len(entry_of(BuiltIndex(v), t))
        /\ \A v \in Variants : \A i \in 1..Len(file[v].records) :
              file[v].records[i].documents_count = Len(file[v].records[i].index.members)

\* C15 witness: write has made a file with a term record of two documents.
C15_Witness ==
    /\ call.op = "write"
    /\ DistinctDocIds
    /\ \E i \in 1..Len(file.dict.records) : file.dict.records[i].documents_count = 2
    /\ \E i \in 1..Len(file.list.records) : file.list.records[i].documents_count = 2

\* The index of the query process of a variant, and the error of its read.
LoadedIndex(variant) == IF variant = "list" THEN loaded.list ELSE loaded.dict

LoadedError(variant) ==
    IF variant = "list" THEN loaded.list_error ELSE loaded.dict_error

\* The index of the variant has read the file that write made of the built
\* index of the same variant.
ReadOwnFile(variant) ==
    /\ loaded.path = variant
    /\ LoadedError(variant) # "FileNotFoundError"

IsLoadedSearch == call.op = "loaded_search"

\* C11: what a dict-based search gives back (result list, scores or
\* exception) is what it gives back, with the same candidate set and the
\* same iteration order, for the query without the keys of Q.alternatives
\* that are not in Q.terms.
C11_ExtraKeysIgnored ==
    (IsLoadedSearch /\ loaded.dict_error = "none")
    => /\ DictIndex_match(loaded.dict, WithoutExtraKeys(call.query))
             = DictIndex_match(loaded.dict, call.query)
       /\ call.dict = Outcome(DictIndex_search(loaded.dict,
                                  WithoutExtraKeys(call.query), call.order))

\* C11 witness: a search that returned documents for a query with an extra
\* key whose list holds an indexed word.
C11_Witness ==
    /\ IsLoadedSearch
    /\ loaded.dict_error = "none"
    /\ call.dict.error = "none"
    /\ call.dict.result_doc_ids # <<>>
    /\ \E k \in ExtraKeys(call.query) :
          \E w \in Range(call.query.alternatives.keys[k]) :
              w \in DOMAIN loaded.dict.term_to_doc_id_and_frequencies

\* What search gives back on the built dict-based index, for the query and
\* the iteration order of the search made on the loaded index.
SearchOfBuiltDictIndex ==
    Outcome(DictIndex_search(dictIndex, call.query,
        IF call.order \in IterationOrders(dictIndex, call.query)
        THEN call.order ELSE <<>>))

\* C16: a new index that has read the file written by the built index of its
\* variant has raised nothing and has the num_documents, doc_counts and
\* postings of the built index; a search on it gives what the search on the
\* built index gives (the dict-based one for the same iteration order of the
\* candidate set), and [B, A] for the basic scenario.
C16_WriteThenReadRoundTrip ==
    /\ \A v \in Variants :
          ReadOwnFile(v) => (LoadedError(v) = "none" /\ LoadedIndex(v) = BuiltIndex(v))
    /\ (IsLoadedSearch /\ ReadOwnFile("list"))
          => call.list = ListIndex_search(listIndex, call.query)
    /\ (IsLoadedSearch /\ ReadOwnFile("dict"))
          => /\ call.order \in IterationOrders(dictIndex, call.query)
             /\ call.dict = SearchOfBuiltDictIndex
    /\ (/\ IsLoadedSearch
        /\ ScenarioS2
        /\ call.query.terms = <<"alpha", "beta">>
        /\ AllAlternativesEmpty(call.query))
          => /\ ReadOwnFile("list") => call.list.result_doc_ids = <<"B", "A">>
             /\ ReadOwnFile("dict") => call.dict.result_doc_ids = <<"B", "A">>

\* C16 witness: the basic scenario was written, read by a dict-based index
\* and searched for [alpha, beta].
C16_Witness ==
    /\ IsLoadedSearch
    /\ ScenarioS2
    /\ ReadOwnFile("dict")
    /\ call.query.terms = <<"alpha", "beta">>
    /\ call.dict.result_doc_ids = <<"B", "A">>
    /\ Len(file.dict.records) = 4

\* C17: for documents with distinct doc_ids, an index of either variant that
\* reads the file with list-shaped postings (written by the list-based
\* index) or the file with dict-shaped postings (written by the dict-based
\* index) raises nothing and holds the state that reading the other shape
\* gives.
C17_BothShapesGiveSameState ==
    (call.op = "read" /\ file[call.path].exists /\ DistinctDocIds)
    => /\ loaded.list_error = "none"
       /\ loaded.dict_error = "none"
       /\ loaded.list = ListIndex_read(EmptyIndex, file.list).index
       /\ loaded.dict = DictIndex_read(EmptyIndex, file.dict).index

\* The file read holds the header with number_of_documents 0 and no record.
HeaderOnlyFileRead ==
    /\ loaded.path # "none"
    /\ loaded.dict_error = "none"
    /\ file[loaded.path].exists
    /\ file[loaded.path].number_of_documents = 0
    /\ file[loaded.path].records = <<>>

\* C18: an index that has read a file holding only the header with
\* number_of_documents 0 has raised nothing, has num_documents 0 and no
\* term, and every search on it returns an empty result.
C18_HeaderOnlyGivesEmpty ==
    HeaderOnlyFileRead
    => /\ \A v \in Variants :
             /\ LoadedError(v) = "none"
             /\ LoadedIndex(v).num_documents = 0
             /\ LoadedIndex(v).doc_counts = <<>>
             /\ DOMAIN LoadedIndex(v).term_to_doc_id_and_frequencies = {}
       /\ IsLoadedSearch
             => /\ call.list.error = "none" /\ call.list.result_doc_ids = <<>>
                /\ call.dict.error = "none" /\ call.dict.result_doc_ids = <<>>

\* What search gives back on the index as the file read gave it, for the
\* query and the iteration order of the search made.
SearchOfIndexAsRead ==
    LET read == DictIndex_read(EmptyIndex, file[loaded.path]).index
    IN  Outcome(DictIndex_search(read, call.query,
            IF call.order \in IterationOrders(read, call.query)
            THEN call.order ELSE <<>>))

\* C19: a search leaves num_documents, the postings and doc_counts of the
\* loaded list-based and dict-based index as they were, and a search made
\* after any number of searches gives what it gives on the index as read.
C19_SearchIsPureRead ==
    /\ [][call'.op = "loaded_search" => loaded' = loaded]_vars
    /\ []((IsLoadedSearch /\ loaded.dict_error = "none")
            => call.dict = SearchOfIndexAsRead)
    /\ []((IsLoadedSearch /\ loaded.list_error = "none")
            => call.list = ListIndex_search(
                   ListIndex_read(EmptyIndex, file[loaded.path]).index, call.query))

\* C19 witness: a search on a loaded dict-based index scored a document for
\* a query with a term and an alternative that are not indexed.
C19_Witness ==
    /\ IsLoadedSearch
    /\ loaded.dict_error = "none"
    /\ call.dict.error = "none"
    /\ call.dict.result_doc_ids # <<>>
    /\ \E i \in 1..Len(call.query.terms) :
          /\ call.query.terms[i] \notin DOMAIN loaded.dict.term_to_doc_id_and_frequencies
          /\ \E a \in Range(alternatives_of(call.query, call.query.terms[i])) :
                a \notin DOMAIN loaded.dict.term_to_doc_id_and_frequencies

\* The query that run is to build: the tokens of the text as terms, an empty
\* list of alternatives for every term, and num_results.
QueryOfRun ==
    [terms |-> tokenize(call.query_string),
     alternatives |-> [is_defaultdict |-> TRUE, keys |-> <<>>],
     num_results |-> call.num_results]

\* C20: QueryProcess.run raises nothing and returns the formatted result of
\* the search for the query made of the tokens of query_string, empty
\* alternatives and num_results.
C20_RunSearchesTheTokens ==
    call.op = "run"
    => /\ call.error = "none"
       /\ \E order \in IterationOrders(loaded.dict, QueryOfRun) :
             call.output = format_results_for_display(
                               DictIndex_search(loaded.dict, QueryOfRun, order))


\* ------------------------------------------------------------ C21 and C22
IsTokenize == call.op = "tokenize"

\* ' '.join(tokens), tokens given by their characters.
RECURSIVE join(_, _)
join(sep, runs) ==
    IF runs = <<>> THEN <<>>
    ELSE IF Len(runs) = 1 THEN runs[1]
    ELSE runs[1] \o <<sep>> \o join(sep, Tail(runs))

RECURSIVE Flatten(_)
Flatten(runs) == IF runs = <<>> THEN <<>> ELSE Head(runs) \o Flatten(Tail(runs))

WithoutWhiteSpace(text) == SelectSeq(text, LAMBDA c : c \notin WhiteSpace)

IsWord(token) == token # <<>> /\ \A k \in 1..Len(token) : token[k] \in WordChars

\* word'word
IsApostropheWord(token) ==
    \E k \in 2..(Len(token) - 1) :
        /\ token[k] = "'"
        /\ IsWord(SubSeq(token, 1, k - 1))
        /\ IsWord(SubSeq(token, k + 1, Len(token)))

\* The apostrophes of a text that stand between two word characters.
InnerApostrophes(text) ==
    { i \in 2..(Len(text) - 1) :
        text[i] = "'" /\ text[i - 1] \in WordChars /\ text[i + 1] \in WordChars }

\* The apostrophes that the tokens hold inside a word.
KeptApostrophes(runs) ==
    UNION { { <<n, k>> : k \in { j \in 1..Len(runs[n]) :
                                    Len(runs[n]) > 1 /\ runs[n][j] = "'" } } :
            n \in 1..Len(runs) }

HasThreePeriods(text) ==
    \E i \in 1..(Len(text) - 2) :
        text[i] = "." /\ text[i + 1] = "." /\ text[i + 2] = "."

\* C21: tokenize lowercases the text, loses and adds no character but white
\* space, emits no empty token, makes every non-word character a token of
\* its own except the apostrophe between two runs of word characters, which
\* it keeps inside one token, and three periods, which become the token
\* '...'; it gives the tokens the tests expect for their texts.
C21_TokenizeContract ==
    IsTokenize
    => LET runs == tokenize_chars(call.data)
       IN  /\ call.tokens = [n \in 1..Len(runs) |-> string_of(runs[n])]
           /\ \A n \in 1..Len(runs) :
                 /\ runs[n] # <<>>
                 /\ call.tokens[n] # ""
                 /\ \/ IsWord(runs[n])
                    \/ Len(runs[n]) = 1
                    \/ IsApostropheWord(runs[n])
                    \/ runs[n] = <<".", ".", ".">>
           /\ Flatten(runs) = WithoutWhiteSpace(lower(call.data))
           /\ Cardinality(KeptApostrophes(runs))
                 = Cardinality(InnerApostrophes(call.data))
           /\ HasThreePeriods(call.data) => "..." \in Range(call.tokens)
           /\ \A e \in TestExamples :
                 call.data = e[1] => call.tokens = e[2]

\* The contract of C21 but for the apostrophes: one kept, another not.
TokenizeContractButApostrophes ==
    IsTokenize
    => LET runs == tokenize_chars(call.data)
       IN  /\ call.tokens = [n \in 1..Len(runs) |-> string_of(runs[n])]
           /\ \A n \in 1..Len(runs) :
                 /\ runs[n] # <<>>
                 /\ \/ IsWord(runs[n])
                    \/ Len(runs[n]) = 1
                    \/ IsApostropheWord(runs[n])
                    \/ runs[n] = <<".", ".", ".">>
           /\ Flatten(runs) = WithoutWhiteSpace(lower(call.data))
           /\ Cardinality(KeptApostrophes(runs))
                 <= Cardinality(InnerApostrophes(call.data))
           /\ HasThreePeriods(call.data) => "..." \in Range(call.tokens)
           /\ \A e \in TestExamples :
                 call.data = e[1] => call.tokens = e[2]

\* C22: the tokens of a text, joined by single spaces and tokenized again,
\* are the same tokens.
C22_TokenizeIdempotent ==
    IsTokenize
    => tokenize(join(" ", tokenize_chars(call.data))) = call.tokens

\* C22 witness: a text with an apostrophe inside a word and a token after
\* it, which is not itself its tokens joined by spaces.
C22_Witness ==
    /\ IsTokenize
    /\ Len(call.tokens) > 1
    /\ IsApostropheWord(tokenize_chars(call.data)[1])
    /\ join(" ", tokenize_chars(call.data)) # call.data


\* ------------------------------------------------------------------- C23
\* C23: process_query(terms) of the expander returns a map whose keys are
\* the terms of the query that are keys of the expander's table, each with
\* the list the table has for it, and leaves the table as it was.
C23_ExpanderKeepsItsTable ==
    [][call'.op = "process_query"
       => /\ term_alternatives' = term_alternatives
          /\ DOMAIN call'.synonyms.keys
                = Range(call'.query_terms) \cap DOMAIN term_alternatives.keys
          /\ \A t \in DOMAIN call'.synonyms.keys :
                call'.synonyms.keys[t] = term_alternatives.keys[t]]_vars

\* C23 witness: a query with a term that has alternatives and a term that
\* has none, on a table that is a defaultdict.
C23_Witness ==
    /\ call.op = "process_query"
    /\ term_alternatives.is_defaultdict
    /\ DOMAIN call.synonyms.keys # {}
    /\ \E t \in Range(call.query_terms) : t \notin DOMAIN term_alternatives.keys


\* ------------------------------------------------------------------- C24
\* C24: run calls add_document on a new index once for each document of the
\* collection, in the collection's iteration order, with the document's
\* doc_id and the tokens of its text, and adds nothing else; the index
\* returned holds one entry per document of the source.
C24_RunAddsEachDocumentOnce ==
    call.op = "indexing_run"
    => LET index == call.index
       IN  /\ Len(index.added) = Len(documents)
           /\ \A i \in 1..Len(documents) :
                 /\ index.added[i].doc_id = documents[i][1]
                 /\ index.added[i].doc_id = documents[i][2].doc_id
                 /\ index.added[i].tokens = tokenize(documents[i][2].text)
           /\ index.naive = index.added
           /\ index.list.num_documents = Len(documents)
           /\ index.dict.num_documents = Len(documents)

\* C24 witness: a run over three documents that are not in the order of
\* their doc_ids, one of them without tokens.
C24_Witness ==
    /\ call.op = "indexing_run"
    /\ Len(documents) = 3
    /\ documents[1][1] = "B"
    /\ \E i \in 1..3 : call.index.added[i].tokens = <<>>
    /\ \E i \in 1..3 : call.index.added[i] = [doc_id |-> "A", tokens |-> <<"gamma", "...">>]

\* ------------------------------------------------------------------- C25
\* C25: insert of a value that is not an InputDocument leaves the collection
\* as it was; get_doc of an id that was never inserted returns None;
\* get_docs(ids) returns a collection of exactly the documents of the
\* requested ids that exist; get_doc and get_docs leave the collection as it
\* was.
C25_CollectionContract ==
    /\ [][call'.op = "insert" /\ call'.doc.type # "InputDocument"
          => documents' = documents]_vars
    /\ [][call'.op \in {"get_doc", "get_docs"} => documents' = documents]_vars
    /\ [](call.op = "get_doc" /\ call.doc_id \notin DictKeys(documents)
          => call.doc = None)
    /\ [](call.op = "get_docs"
          => /\ DictKeys(call.doc_collection)
                   = Range(call.doc_ids) \cap DictKeys(documents)
             /\ \A id \in DictKeys(call.doc_collection) :
                   DictGet(call.doc_collection, id) = DictGet(documents, id))

\* C25 witness: get_docs for an id that exists and one that does not, on a
\* collection that holds more documents than are returned.
C25_Witness ==
    /\ call.op = "get_docs"
    /\ Range(call.doc_ids) = {"A", "Z"}
    /\ Len(call.doc_collection) = 1
    /\ Len(documents) = 3


\* ------------------------------------------------------------------- C26
\* C26: the list-based index has an alternatives-aware search, search2: for
\* a query with alternatives, on documents with distinct doc_ids and with
\* num_results at least the number of documents, it returns exactly the
\* documents that contain, for every query term, the term or one of its
\* alternatives.
C26_ListSearchWithAlternatives ==
    (/\ IsSearch
     /\ call.query.terms # <<>>
     /\ EveryTermHasAList(call.query)
     /\ DistinctDocIds
     /\ call.query.num_results >= listIndex.num_documents)
    => LET found == ListIndex_search2(listIndex, call.query)
       IN  /\ found.error = "none"
           /\ Range(found.result_doc_ids) = CandidateSet(call.query)

\* The same of search, the search the list-based index has.
ListSearchHonoursAlternatives ==
    (/\ IsSearch
     /\ call.query.terms # <<>>
     /\ EveryTermHasAList(call.query)
     /\ DistinctDocIds
     /\ call.query.num_results >= listIndex.num_documents)
    => /\ call.list.error = "none"
       /\ Range(call.list.result_doc_ids) = CandidateSet(call.query)


\* ------------------------------------------------------------------- C27
DocIdOncePerTerm(idx) ==
    \A t \in DOMAIN idx.term_to_doc_id_and_frequencies :
        NoDuplicates(DictKeySeq(idx.term_to_doc_id_and_frequencies[t]))

\* C27: in every state reached by add_document calls, also calls that give
\* a doc_id that is already indexed, a doc_id occurs at most once in the
\* postings of each term, in the list-based and in the dict-based index.
C27_DocIdOncePerTerm ==
    /\ DocIdOncePerTerm(listIndex)
    /\ DocIdOncePerTerm(dictIndex)

\* The dict-based half of C27: storing by doc_id (line 261) keeps one entry.
DictIndexDocIdOncePerTerm == DocIdOncePerTerm(dictIndex)


\* ------------------------------------------------------------------- C28
IsSearchBuilt == call.op = "search_built"

NoEmptyPostings(idx) ==
    \A t \in DOMAIN idx.term_to_doc_id_and_frequencies :
        idx.term_to_doc_id_and_frequencies[t] # <<>>

\* The words of the query, terms and listed alternatives, that are in no
\* document of the dict-based index.
UnindexedWords(q) ==
    { w \in UNION { Group(q, i) : i \in 1..Len(q.terms) } :
        CounterGet(dictIndex.doc_counts, w) = 0 }

\* C28: in every state reached by add_document, search and write calls (and
\* reads of the file written), every term that is a key of postings has a
\* non-empty postings entry, in the list-based and in the dict-based index.
C28_NoEmptyPostings ==
    /\ NoEmptyPostings(listIndex)
    /\ NoEmptyPostings(dictIndex)

\* C28 witness: an index that holds a document without tokens and has been
\* written is searched for a word that is in no document, the search gets as
\* far as scoring and returns a document.
C28_Witness ==
    /\ IsSearchBuilt
    /\ file.dict.exists
    /\ \E i \in 1..Len(naiveIndex) : naiveIndex[i].tokens = <<>>
    /\ call.dict.error = "none"
    /\ call.dict.result_doc_ids # <<>>
    /\ UnindexedWords(call.query) # {}
    /\ Postings # <<>>

\* ------------------------------------------------------------------- C29
ArithmeticErrors == {"ZeroDivisionError", "ValueError"}

\* The query without the alternatives that are in no document.
IndexedOnly(q) ==
    [q EXCEPT !.alternatives.keys =
        [k \in DOMAIN @ |->
            SelectSeq(@[k], LAMBDA w : CounterGet(dictIndex.doc_counts, w) > 0)]]

\* Every word either index holds has a document frequency from 1 to
\* num_documents.
FrequenciesInRange(idx) ==
    \A t \in DictKeys(idx.doc_counts) \cup DOMAIN idx.term_to_doc_id_and_frequencies :
        /\ CounterGet(idx.doc_counts, t) >= 1
        /\ CounterGet(idx.doc_counts, t) <= idx.num_documents

\* C29: a search on an index built by add_document raises no division or
\* logarithm-domain error, in either inverted index; the words the index
\* holds, the only ones inverse_document_frequency is called for, have a
\* document frequency of at least 1 and at most num_documents; and a word
\* with document frequency 0 adds nothing: the dict-based search gives the
\* scores and the result of the query without the unindexed alternatives,
\* and no score is negative.
C29_NoArithmeticError ==
    /\ FrequenciesInRange(listIndex)
    /\ FrequenciesInRange(dictIndex)
    /\ IsSearchBuilt =>
          /\ call.list.error \notin ArithmeticErrors
          /\ call.dict.error \notin ArithmeticErrors
          /\ LET found == DictIndex_search(dictIndex, IndexedOnly(call.query),
                                           call.order)
             IN  /\ found.error = call.dict.error
                 /\ found.scores = call.dict.scores
                 /\ found.result_doc_ids = call.dict.result_doc_ids
          /\ \A i \in 1..Len(call.dict.scores) : call.dict.scores[i][2] >= 0

\* C29 witness: a search whose query has a term that is in no document and
\* an alternative that is in no document returns a document with a positive
\* score.
C29_Witness ==
    /\ IsSearchBuilt
    /\ call.dict.error = "none"
    /\ \E i \in 1..Len(call.query.terms) :
          CounterGet(dictIndex.doc_counts, call.query.terms[i]) = 0
    /\ IndexedOnly(call.query) # call.query
    /\ \E i \in 1..Len(call.dict.scores) :
          /\ call.dict.scores[i][2] > 0
          /\ call.dict.scores[i][1] \in Range(call.dict.result_doc_ids)


\* ------------------------------------------------------------------- C30
IsReread == call.op = "reread"

RereadError(variant) ==
    IF variant = "list" THEN call.list_error ELSE call.dict_error

\* The postings a term record of the file holds, as pairs (doc_id, tf): an
\* array of objects in the file of the list-based index, an object in that of
\* the dict-based index.
PostingsOfRecord(record) ==
    [j \in 1..Len(record.index.members) |->
        IF record.index.shape = "array"
        THEN <<record.index.members[j].doc_id, record.index.members[j].tf.repr>>
        ELSE <<record.index.members[j][1], record.index.members[j][2].repr>>]

\* idx holds what the file f holds, and nothing else.
HoldsFile(idx, f) ==
    /\ idx.num_documents = f.number_of_documents
    /\ idx.doc_counts =
          [i \in 1..Len(f.records) |->
              <<f.records[i].term, f.records[i].documents_count>>]
    /\ DOMAIN idx.term_to_doc_id_and_frequencies =
          { f.records[i].term : i \in 1..Len(f.records) }
    /\ \A i \in 1..Len(f.records) :
          idx.term_to_doc_id_and_frequencies[f.records[i].term] =
              PostingsOfRecord(f.records[i])

ReadAgain(variant) ==
    IF variant = "list" THEN ListIndex_read(listIndex, file.list)
    ELSE DictIndex_read(dictIndex, file.dict)

\* C30: after a successful read, by an index of either variant that held any
\* documents before, num_documents, doc_counts and postings are exactly
\* those of the file, and reading the file again leaves that state.
C30_ReadReplacesState ==
    IsReread =>
        \A v \in Variants :
            RereadError(v) = "none" =>
                /\ HoldsFile(BuiltIndex(v), file[v])
                /\ ReadAgain(v) = [index |-> BuiltIndex(v), error |-> "none"]

\* C30 witness: both indexes read a file with term records after documents
\* were added that the file does not have: before the read they held more
\* documents and a term that is not in the file.
C30_Witness ==
    /\ IsReread
    /\ \A v \in Variants :
          /\ RereadError(v) = "none"
          /\ file[v].records # <<>>
          /\ call.before[v].num_documents > BuiltIndex(v).num_documents
          /\ DictKeys(call.before[v].doc_counts) \ DictKeys(BuiltIndex(v).doc_counts) # {}

====
